---- MODULE Spec2Model ----
(***************************************************************************)
(* Control plane of genai-agent-orchestrator.                              *)
(*                                                                         *)
(*   Spec      OrchestrationExecutor.orchestrate: planning, the capability *)
(*             call on a worker under a deadline, session memory, the      *)
(*             three scorers, trace capture and telemetry publishing.      *)
(*   CaptureSpec  TraceCollector.capture on its own, every stage free to   *)
(*             raise.                                                      *)
(*   PlanSpec  OrchestrationExecutor.execute_plan / _execute_step.         *)
(*   PlannerSpec  PlannerAgent.plan and OrchestrationPlanner.plan as calls *)
(*             over prompts, snapshots and enforcement configurations.     *)
(*   CriticSpec  CriticAgent.run_step and validate_from_execution.         *)
(*   PolicySpec  evaluate_policy.                                          *)
(*   GraduationSpec  GraduationEvaluator.evaluate.                         *)
(*   EvaluatorSpec  both evaluators on malformed input.                    *)
(*   StoreSpec  SessionStore under concurrent callers; MemorySpec, the     *)
(*             same store with one caller at a time.                       *)
(*                                                                         *)
(* Numbers that are fractions in the source (confidence, deltas) are kept  *)
(* in tenths: 0.6 is 6.                                                    *)
(***************************************************************************)
EXTENDS Integers, Sequences, FiniteSets, TLC

(* ------------------------------ bounds -------------------------------- *)
MaxPromptLen == 1
MaxRequests == 2
MaxSteps == 3
MaxPlannerPromptLen == 2

(* ------------------------------ prompts ------------------------------- *)
\* A prompt is a sequence of words, or the null (non-text) prompt.  Keyword
\* containment (`keyword in prompt_lower`) is containment of a word.
Words == {"search", "verify", "what"}
NullPrompt == [isText |-> FALSE, words |-> <<>>]
TextPrompt(w) == [isText |-> TRUE, words |-> w]
Prompts ==
  {NullPrompt} \cup {TextPrompt(w) : w \in UNION {[1..n -> Words] : n \in 0..MaxPromptLen}}
Sessions == {"s1", "s2"}

RETRIEVAL_KEYWORDS == {"search", "find", "lookup", "retrieve", "document"}
VALIDATION_KEYWORDS == {"validate", "verify", "check", "review", "critique"}
QUESTION_WORDS == {"what", "how", "why", "when", "where", "who"}
DEFAULT_AGENT == "general"
DEFAULT_REASON == "Default routing for general queries"

ContainsAny(p, kws) == \E i \in DOMAIN p.words : p.words[i] \in kws

\* `not prompt or not isinstance(prompt, str) or not prompt.strip()`: not a
\* text, or a text of nothing but whitespace
WHITESPACE == " "
IsBlank(p) == ~p.isText \/ \A i \in DOMAIN p.words : p.words[i] = WHITESPACE

PlannerDecision(agent, why) == [selected_agent |-> agent, reason |-> why]

\* the classification as it would be with the two keyword checks swapped
PlannerAgent_plan_validation_first(p) ==
  IF IsBlank(p) THEN PlannerDecision(DEFAULT_AGENT, DEFAULT_REASON)
  ELSE IF ContainsAny(p, VALIDATION_KEYWORDS)
       THEN PlannerDecision("critic", "Contains validation-related keywords")
  ELSE IF ContainsAny(p, RETRIEVAL_KEYWORDS)
       THEN PlannerDecision("retrieval", "Contains retrieval-related keywords")
  ELSE PlannerDecision(DEFAULT_AGENT, DEFAULT_REASON)

PlannerAgent_plan(p) ==
  IF IsBlank(p) THEN PlannerDecision(DEFAULT_AGENT, DEFAULT_REASON)
  ELSE IF ContainsAny(p, RETRIEVAL_KEYWORDS)
       THEN PlannerDecision("retrieval", "Contains retrieval-related keywords")
  ELSE IF ContainsAny(p, VALIDATION_KEYWORDS)
       THEN PlannerDecision("critic", "Contains validation-related keywords")
  ELSE PlannerDecision(DEFAULT_AGENT, DEFAULT_REASON)

\* PlannerAgent.plan with `fault`: an exception raised inside its try block,
\* which the except clause turns into the default decision.
PlannerAgent_plan_faulted(p, fault) ==
  IF IsBlank(p) THEN PlannerDecision(DEFAULT_AGENT, DEFAULT_REASON)
  ELSE IF fault THEN PlannerDecision(DEFAULT_AGENT, DEFAULT_REASON)
  ELSE PlannerAgent_plan(p)

(* -------------------------- policy snapshots -------------------------- *)
NoSnapshot == [kind |-> "none", status |-> "none", violations |-> {}, warnings |-> {}]
Snapshot(st, v, w) == [kind |-> "dict", status |-> st, violations |-> v, warnings |-> w]
WarnCost == Snapshot("warn", {}, {"elevated_cost"})
FailCost == Snapshot("fail", {"high_cost"}, {})
PolicySnapshots == {WarnCost, FailCost}

\* truthiness of `policy_context`: None and the empty dict are false
Truthy(ctx) == ctx.kind = "dict" /\ (ctx.status # "none" \/ ctx.violations # {} \/ ctx.warnings # {})

(* ------------------------- enforcement config ------------------------- *)
ENFORCEMENT_ENABLED == TRUE
ENABLED_RULES == {"cost_guard"}
CANARY_ENFORCEMENT == [enabled |-> TRUE, tier |-> "free", percentage |-> 5]

\* The class attributes as one value; DEPLOYED_CONFIG is the class as written.
EnforcementConfig(kill_switch_on, rules, canary) ==
  [enforcement_enabled |-> kill_switch_on, enabled_rules |-> rules, canary |-> canary]
DEPLOYED_CONFIG == EnforcementConfig(ENFORCEMENT_ENABLED, ENABLED_RULES, CANARY_ENFORCEMENT)

is_enabled_under(cfg, rule_id) ==
  IF ~cfg.enforcement_enabled THEN FALSE ELSE rule_id \in cfg.enabled_rules

EnforcementConfig_is_enabled(rule_id) == is_enabled_under(DEPLOYED_CONFIG, rule_id)

\* int(sha256(prompt).hexdigest(), 16) % 100: a fixed function of the prompt's
\* text with values in 0..99.
WordCode(w) == CASE w = "search" -> 17 [] w = "verify" -> 43 [] OTHER -> 71
RECURSIVE HashSeq(_)
HashSeq(ws) == IF ws = <<>> THEN 3 ELSE (31 * HashSeq(Tail(ws)) + WordCode(Head(ws))) % 100
PromptHashMod100(p) == HashSeq(p.words)

NoHints ==
  [raised |-> FALSE, hint |-> "none", influenced |-> FALSE, enforcement |-> FALSE,
   enforcement_skipped |-> FALSE, canary |-> "none"]

\* the if/elif chain of the `status == "fail"` branch
FailHint(violations) ==
  IF "high_cost" \in violations THEN "cost_sensitive"
  ELSE IF "low_score" \in violations THEN "quality_sensitive"
  ELSE IF "high_latency" \in violations THEN "latency_sensitive"
  ELSE "review_recommended"

\* OrchestrationPlanner._compute_policy_hints under the configuration `cfg`;
\* `raised` when prompt.encode is reached with a non-text prompt.
compute_policy_hints_under(cfg, ctx, p) ==
  IF ctx.status = "fail" THEN
    [NoHints EXCEPT !.influenced = TRUE, !.hint = FailHint(ctx.violations)]
  ELSE IF ctx.status = "warn" THEN
    IF "elevated_cost" \in ctx.warnings THEN
      LET base == [NoHints EXCEPT !.influenced = TRUE, !.hint = "prefer_cost_efficient"] IN
      IF is_enabled_under(cfg, "cost_guard") THEN
        IF cfg.canary.enabled THEN
          IF "free" = cfg.canary.tier THEN
            IF ~p.isText THEN [base EXCEPT !.raised = TRUE]
            ELSE IF PromptHashMod100(p) < cfg.canary.percentage
                 THEN [base EXCEPT !.canary = "sampled", !.enforcement = TRUE]
                 ELSE [base EXCEPT !.canary = "sampled_out", !.enforcement_skipped = TRUE]
          ELSE [base EXCEPT !.enforcement_skipped = TRUE]
        ELSE [base EXCEPT !.enforcement = TRUE]
      ELSE [base EXCEPT !.enforcement_skipped = TRUE]
    ELSE IF "marginal_score" \in ctx.warnings
         THEN [NoHints EXCEPT !.influenced = TRUE, !.hint = "prefer_quality"]
    ELSE IF "elevated_latency" \in ctx.warnings
         THEN [NoHints EXCEPT !.influenced = TRUE, !.hint = "prefer_fast"]
    ELSE NoHints
  ELSE NoHints

ComputePolicyHints(ctx, p) == compute_policy_hints_under(DEPLOYED_CONFIG, ctx, p)

EnrichedRoutingDecision(agent, why, h) ==
  [selected_agent |-> agent, reason |-> why, policy_hint |-> h.hint,
   policy_influenced |-> h.influenced, enforcement |-> h.enforcement,
   enforcement_skipped |-> h.enforcement_skipped, canary |-> h.canary]

NoDecision == EnrichedRoutingDecision("unknown", "none", NoHints)
FallbackDecision == EnrichedRoutingDecision("general", "Fallback due to planner failure", NoHints)

\* Is `canary_meta` bound when the return statement of plan reads it?  It is
\* assigned only inside `if self._policy_influence_enabled and policy_context`.
CanaryMetaBound(ctx) == Truthy(ctx)

\* OrchestrationPlanner.plan under the configuration `cfg`: the decision, or
\* `raised`.  `plannerRaises`: self._planner.plan(prompt), a bare call, raises.
plan_under(cfg, p, ctx, plannerRaises) ==
  LET base == PlannerAgent_plan(p)
      h == IF Truthy(ctx) THEN compute_policy_hints_under(cfg, ctx, p) ELSE NoHints
  IN IF plannerRaises \/ h.raised \/ ~CanaryMetaBound(ctx)
     THEN [raised |-> TRUE, decision |-> NoDecision]
     ELSE [raised |-> FALSE,
           decision |-> EnrichedRoutingDecision(base.selected_agent, base.reason, h)]

OrchestrationPlanner_plan(p, ctx) == plan_under(DEPLOYED_CONFIG, p, ctx, FALSE)

\* OrchestrationExecutor._safe_execute applied to plan_step
SafePlan(p, ctx) ==
  LET r == OrchestrationPlanner_plan(p, ctx) IN
  IF r.raised THEN FallbackDecision ELSE r.decision

(* ------------------------------ outputs ------------------------------- *)
\* An output is described by what the scorers read of it: whether it is text
\* at all (AgentResult.output is typed Any), len(output.strip()), the number
\* of words, and the phrases the validator looks for.
Output(t, c, w, u, e, ph) ==
  [isText |-> t, chars |-> c, words |-> w, uncertain |-> u, errorSignal |-> e, placeholder |-> ph]
OutPlain == Output(TRUE, 60, 12, FALSE, FALSE, FALSE)
OutShort == Output(TRUE, 2, 1, FALSE, FALSE, FALSE)
OutLong == Output(TRUE, 400, 60, FALSE, FALSE, FALSE)
OutNonText == Output(FALSE, 0, 0, FALSE, FALSE, FALSE)
\* "I apologize, but the request timed out. Please try again."
TIMEOUT_OUTPUT == Output(TRUE, 57, 10, FALSE, FALSE, FALSE)
\* "I encountered an error processing your request."
ERROR_OUTPUT == Output(TRUE, 47, 7, FALSE, FALSE, FALSE)
CapabilityOutputs == {OutPlain, OutShort, OutLong, OutNonText}

Max(a, b) == IF a > b THEN a ELSE b
Min(a, b) == IF a < b THEN a ELSE b

(* ------------------------------ scorers ------------------------------- *)
\* Each scorer calls .lower()/.split() on both arguments: a non-text prompt
\* or output raises AttributeError.
ScorerRaises(output, p) == ~output.isText \/ ~p.isText

AnalystAgent_analyze(output, p) == [raised |-> ScorerRaises(output, p)]

EvaluationAgent_evaluate(output, p) == [raised |-> ScorerRaises(output, p)]

ValidatorAgent_validate(output, p) ==
  LET d1 == IF output.chars < 10 THEN -3 ELSE 0
      d2 == IF output.uncertain THEN -1 ELSE 0
      d3 == IF output.errorSignal THEN -2 ELSE 0
      d4 == IF output.placeholder THEN -2 ELSE 0
      d5 == IF ContainsAny(p, QUESTION_WORDS) /\ output.words < 5 THEN -1 ELSE 0
      d6 == IF output.words > 50 THEN 1 ELSE 0
      issues == Cardinality({i \in 1..5 : <<d1, d2, d3, d4, d5>>[i] # 0})
  IN [raised |-> ScorerRaises(output, p),
      is_valid |-> issues = 0,
      confidence_delta |-> Max(-10, Min(10, d1 + d2 + d3 + d4 + d5 + d6))]

(* --------------------------- agent results ---------------------------- *)
\* shape "AgentResult": the value object; shape "str": a bare string (what
\* CriticAgent.run returns), which has no .output / .metadata attributes.
AgentResult(name, out, conf, err, pol) ==
  [shape |-> "AgentResult", agent_name |-> name, output |-> out, confidence |-> conf,
   error |-> err, policy |-> pol, routing |-> NoDecision,
   analysis |-> FALSE, validation |-> FALSE, evaluation |-> FALSE]
BareString == [AgentResult("none", OutPlain, 0, "none", NoSnapshot) EXCEPT !.shape = "str"]
NoResult == [AgentResult("none", OutNonText, 0, "none", NoSnapshot) EXCEPT !.shape = "none"]

\* What agent.run can return, per registered agent (self.agents).  The
\* metadata a capability returns is its own: it may carry a "policy" entry.
\* (output, policy entry) pairs drawn for a call of the language model:
CapabilityReturns ==
  {<<o, NoSnapshot>> : o \in CapabilityOutputs} \cup {<<OutPlain, pol>> : pol \in PolicySnapshots}
GeneralAgent_run ==
  {AgentResult("general", m[1], 6, "none", m[2]) : m \in CapabilityReturns}
RetrievalAgent_run ==
  {AgentResult("retrieval", OutPlain, 1, "retrieval_error", NoSnapshot),
   AgentResult("retrieval", OutPlain, 3, "none", NoSnapshot),
   AgentResult("retrieval", OutPlain, 4, "none", NoSnapshot)}
  \cup {AgentResult("retrieval", m[1], 7, "none", m[2]) : m \in CapabilityReturns}
CriticAgent_run == {BareString}

\* run_agent: general directly, every other agent through execute()
run_agent(agent) ==
  CASE agent = "general" -> GeneralAgent_run
    [] agent = "retrieval" -> RetrievalAgent_run
    [] agent = "critic" -> CriticAgent_run
    [] OTHER -> {AgentResult(agent, OutPlain, 0, "agent_not_found", NoSnapshot)}

TIMEOUT_SECONDS == 30
TimeoutResult(agent) == AgentResult(agent, TIMEOUT_OUTPUT, 0, "timeout", NoSnapshot)
ErrorResult(agent) == AgentResult(agent, ERROR_OUTPUT, 0, "exception", NoSnapshot)

(* --------------------------- session memory --------------------------- *)
DEFAULT_MAX_TURNS == 10
Turn(role, n) == [role |-> role, req |-> n]
\* SessionContext.add_turn: append, keep the last max_turns
SessionContext_add_turn(turns, t) ==
  LET all == Append(turns, t) IN
  IF Len(all) > DEFAULT_MAX_TURNS
  THEN SubSeq(all, Len(all) - DEFAULT_MAX_TURNS + 1, Len(all))
  ELSE all

(* ------------------------------- state -------------------------------- *)
VARIABLES
  \* process-wide state
  SESSION_POLICY_CACHE,  \* session id -> last policy snapshot (NoSnapshot: no entry)
  sessions,              \* session store: session id -> turns
  reqCount,              \* requests started so far
  \* the request in progress
  pc, prompt, session_id, validateArg, analyzeArg,
  decision,              \* what the planning step produced
  invoked,               \* the capability run_agent was submitted for
  invocations,           \* number of capability invocations of this request
  worker,                \* "idle" | "running" | "done" | "raised"
  workerResult,          \* what the worker's run_agent returned
  timedOut,              \* future.result raised TimeoutError
  result,                \* the AgentResult the flow holds
  faults,                \* side computations that raised during this request
  raisedBy,              \* what put the request on its failure path
  \* trace capture
  trace,                 \* the ExecutionTrace capture built
  attempted,             \* stages of capture that were started
  failed,                \* stages of capture that raised
  captureRaised,         \* an exception left capture
  llmops, sendIdx, inFlight, sent,
  audits,                \* the audit lines capture printed for the trace
  \* execute_plan
  plan, results, global_status, final_output, planPc, crashed,
  executed,              \* step ids _execute_step was called for, in call order
  \* a call of one of the pure functions (planners, critic, evaluators)
  call,                  \* the function and its arguments
  ret,                   \* what the call returned, or that it raised
  again                  \* what a second call with the same arguments returned

orchVars ==
  <<SESSION_POLICY_CACHE, sessions, reqCount, pc, prompt, session_id, validateArg,
    analyzeArg, decision, invoked, invocations, worker, workerResult, timedOut,
    result, faults, raisedBy>>
captureVars ==
  <<trace, attempted, failed, captureRaised, llmops, sendIdx, inFlight, sent, audits>>
planVars == <<plan, results, global_status, final_output, planPc, crashed, executed>>
VARIABLES
  store_sessions,  \* SessionStore._sessions: session id -> context (NoContext: no entry)
  last_access,     \* SessionStore._last_access
  ctx_turns,       \* SessionContext.turns of every context created so far
  clock,           \* datetime.now()
  thr,             \* the callers of the store: where each is, the context it holds
  ctx_log,         \* per context, the turns appended to it, in order
  observed,        \* what the last to_prompt_context formatted
  evicted,         \* contexts removed by _cleanup_expired, with their idle time
  cleaned_at,      \* the time of the last _cleanup_expired
  ticks,           \* times the clock has moved
  turns_added      \* turns appended so far
storeVars == <<store_sessions, last_access, ctx_turns, clock, thr, ctx_log, observed, evicted,
               cleaned_at, ticks, turns_added>>
pureVars == <<call, ret, again>>
vars == <<orchVars, captureVars, planVars, pureVars, storeVars>>

NoCall == [fn |-> "none"]
NoRet == [status |-> "pending", raised |-> FALSE, value |-> "none"]
Pending(r) == r.status = "pending"
PureIdle == call = NoCall /\ ret = NoRet /\ again = NoRet

\* the session store before any call
Threads == {"t1", "t2"}
NoContext == 0
NeverAccessed == -1
IdleThread == [pc |-> "idle", ctx |-> NoContext, sliced |-> <<>>]
OffThread == [pc |-> "off", ctx |-> NoContext, sliced |-> <<>>]

StoreIdle ==
  /\ store_sessions = [s \in Sessions |-> NoContext]
  /\ last_access = [s \in Sessions |-> NeverAccessed]
  /\ ctx_turns = <<>>
  /\ clock = 0
  /\ thr = [t \in Threads |-> OffThread]
  /\ ctx_log = <<>>
  /\ observed = <<>>
  /\ evicted = {}
  /\ cleaned_at = 0
  /\ ticks = 0
  /\ turns_added = 0


SideComputations ==
  {"mem_read", "mem_write_user", "mem_write_assistant", "analyzer", "validator", "evaluator"}

ExecutionTrace(built, success, policy) == [built |-> built, success |-> success, policy |-> policy]
NoTrace == ExecutionTrace(FALSE, FALSE, NoSnapshot)

(* ------------------------- orchestrate: start -------------------------- *)
\* Lines 133-177: request id, planning (safe), memory read (safe, general
\* only), submission of run_agent to a one-worker pool.
BeginRequest(p, s, v, a, readFails) ==
  /\ pc = "idle"
  /\ reqCount < MaxRequests
  /\ LET d == SafePlan(p, SESSION_POLICY_CACHE[s]) IN
     /\ decision' = d
     /\ invoked' = d.selected_agent
     /\ faults' = IF d.selected_agent = "general" /\ readFails THEN {"mem_read"} ELSE {}
  /\ reqCount' = reqCount + 1
  /\ prompt' = p /\ session_id' = s /\ validateArg' = v /\ analyzeArg' = a
  /\ invocations' = 1
  /\ worker' = "running" /\ workerResult' = NoResult /\ timedOut' = FALSE
  /\ result' = NoResult /\ raisedBy' = "none"
  /\ pc' = "await"
  /\ trace' = NoTrace /\ attempted' = {} /\ failed' = {} /\ captureRaised' = FALSE
  /\ llmops' = FALSE /\ sendIdx' = 0 /\ inFlight' = FALSE /\ sent' = <<>> /\ audits' = <<>>
  /\ UNCHANGED <<SESSION_POLICY_CACHE, sessions, planVars, pureVars, storeVars>>

(* ------------------------------ the worker ----------------------------- *)
\* run_agent on the pool's thread; it runs to its end whether or not the
\* coordinating flow is still waiting for it.
WorkerReturn(r) ==
  /\ worker = "running"
  /\ r \in run_agent(invoked)
  /\ worker' = "done"
  /\ workerResult' = IF timedOut THEN NoResult ELSE r   \* nobody reads the future any more
  /\ UNCHANGED <<SESSION_POLICY_CACHE, sessions, reqCount, pc, prompt, session_id,
                 validateArg, analyzeArg, decision, invoked, invocations, timedOut,
                 result, faults, raisedBy, captureVars, planVars, pureVars, storeVars>>

WorkerRaise ==
  /\ worker = "running"
  /\ worker' = "raised"
  /\ UNCHANGED <<SESSION_POLICY_CACHE, sessions, reqCount, pc, prompt, session_id,
                 validateArg, analyzeArg, decision, invoked, invocations, workerResult,
                 timedOut, result, faults, raisedBy, captureVars, planVars, pureVars, storeVars>>

(* ----------------------- waiting for the worker ------------------------ *)
flowUnchanged ==
  UNCHANGED <<SESSION_POLICY_CACHE, sessions, reqCount, prompt, session_id, validateArg,
              analyzeArg, decision, invoked, invocations, worker, workerResult, faults,
              raisedBy, captureVars, planVars, pureVars, storeVars>>

\* future.result(timeout) returns or re-raises before the deadline
FutureResult ==
  /\ pc = "await" /\ worker \in {"done", "raised"}
  /\ result' = IF worker = "done" THEN workerResult ELSE ErrorResult(decision.selected_agent)
  /\ pc' = "post"
  /\ UNCHANGED timedOut
  /\ flowUnchanged

\* the deadline expires first: TimeoutError is raised inside the `with` block
FutureTimeout ==
  /\ pc = "await" /\ worker = "running"
  /\ timedOut' = TRUE
  /\ pc' = "pool_exit"
  /\ UNCHANGED result
  /\ flowUnchanged

\* Leaving `with ThreadPoolExecutor(...)` runs shutdown(wait=True): the block
\* is left only once the worker thread has finished.
ShutdownWaits == TRUE
PoolExit ==
  /\ pc = "pool_exit"
  /\ ShutdownWaits => worker # "running"
  /\ result' = TimeoutResult(decision.selected_agent)
  /\ pc' = "post"
  /\ UNCHANGED timedOut
  /\ flowUnchanged

(* --------------------- orchestrate: after the call --------------------- *)
\* Lines 196-204: both writes go through _safe_execute.  The assistant write
\* reads result.output inside the lambda, so it also fails on a bare string.
MemoryWrites(userFails, asstFails) ==
  LET asstRaises == asstFails \/ result.shape # "AgentResult"
      t1 == IF userFails THEN sessions[session_id]
            ELSE SessionContext_add_turn(sessions[session_id], Turn("user", reqCount))
      t2 == IF asstRaises THEN t1
            ELSE SessionContext_add_turn(t1, Turn("assistant", reqCount))
  IN [turns |-> t2,
      faults |-> (IF userFails THEN {"mem_write_user"} ELSE {})
                 \cup (IF asstRaises THEN {"mem_write_assistant"} ELSE {})]

\* Lines 213-234: analysis, validation (with the clamped confidence), then
\* evaluation, in that order; the first scorer that raises ends the sequence.
\* analyzeArg / validateArg stand for `self._enable_analysis and analyze` and
\* `self._enable_validation and validate`; evaluation is on, as constructed.
RunScorers(r) ==
  LET doA == analyzeArg
      doV == validateArg
      a == AnalystAgent_analyze(r.output, prompt)
      v == ValidatorAgent_validate(r.output, prompt)
      e == EvaluationAgent_evaluate(r.output, prompt)
      rA == IF doA THEN [r EXCEPT !.analysis = TRUE] ELSE r
      rV == IF doV THEN [rA EXCEPT !.validation = TRUE,
                           !.confidence = Max(0, Min(10, rA.confidence + v.confidence_delta))]
            ELSE rA
  IN IF doA /\ a.raised THEN [raised |-> "analyzer", result |-> r]
     ELSE IF doV /\ v.raised THEN [raised |-> "validator", result |-> rA]
     ELSE IF e.raised THEN [raised |-> "evaluator", result |-> rV]
     ELSE [raised |-> "none", result |-> [rV EXCEPT !.evaluation = TRUE]]

\* Does an exception of this scorer stay inside orchestrate?  The scorer
\* calls are not wrapped: the outer handler records a failure trace and
\* re-raises.
ScorerContained(scorer) == FALSE

PostProcess(userFails, asstFails) ==
  /\ pc = "post"
  /\ LET m == MemoryWrites(userFails, asstFails) IN
     /\ sessions' = [sessions EXCEPT ![session_id] = m.turns]
     /\ IF result.shape # "AgentResult"
        THEN \* result.metadata raises; so does the handler's own result.metadata
             /\ faults' = faults \cup m.faults
             /\ raisedBy' = "routing"
             /\ pc' = "raise"
             /\ UNCHANGED <<result, SESSION_POLICY_CACHE>>
        ELSE LET r1 == [result EXCEPT !.routing = decision]
                 sc == RunScorers(r1)
             IN /\ SESSION_POLICY_CACHE' =
                     IF r1.policy.kind = "dict"
                     THEN [SESSION_POLICY_CACHE EXCEPT ![session_id] = r1.policy]
                     ELSE SESSION_POLICY_CACHE
                /\ result' = sc.result
                /\ faults' = faults \cup m.faults
                               \cup (IF sc.raised = "none" THEN {} ELSE {sc.raised})
                /\ IF sc.raised = "none" \/ ScorerContained(sc.raised)
                   THEN raisedBy' = "none" /\ pc' = "capture"
                   ELSE raisedBy' = sc.raised /\ pc' = "capture_failure"
  /\ UNCHANGED <<reqCount, prompt, session_id, validateArg, analyzeArg, decision, invoked,
                 invocations, worker, workerResult, timedOut, captureVars, planVars, pureVars, storeVars>>

(* ---------------------------- trace capture ---------------------------- *)
\* in the order capture runs them
CaptureStages == <<"cost", "policy", "sla", "trace", "emit", "save", "audit", "publish">>
FailureStages == <<"trace", "emit", "save">>
ENDPOINTS ==
  <<"/ingest/trace", "/ingest/cost", "/ingest/evaluation", "/ingest/policy", "/ingest/sla">>

\* capture as it would be without its outer try/except
CaptureHandlerWithoutOuterTry(stage) ==
  IF stage \in {"cost", "policy", "sla", "save", "publish"} THEN "local" ELSE "none"

\* Which handler catches an exception raised by a stage of capture:
\* "local" (the stage's own try: the lazy wrappers _estimate_cost,
\* _evaluate_policy, _classify_sla, and _save_evaluation, _publish_to_llmops),
\* "outer" (capture's try/except Exception) or "none".
CaptureHandler(stage) ==
  IF stage \in {"cost", "policy", "sla", "save", "publish"} THEN "local" ELSE "outer"

\* Position of the first stage in `F` whose exception leaves its own
\* statement (0: there is none).
FirstEscaping(stages, F) ==
  LET esc == {i \in 1..Len(stages) : stages[i] \in F /\ CaptureHandler(stages[i]) # "local"}
  IN IF esc = {} THEN 0 ELSE CHOOSE i \in esc : \A j \in esc : i <= j

\* The stages that are started when the stages in `F` raise: an exception
\* that leaves its statement ends the try block there.
StagesAttempted(stages, F) ==
  LET k == FirstEscaping(stages, F)
      last == IF k = 0 THEN Len(stages) ELSE k
  IN {stages[i] : i \in 1..last}

\* Does the exception of the first escaping stage leave the method?
Escapes(stages, F) ==
  LET k == FirstEscaping(stages, F) IN k # 0 /\ CaptureHandler(stages[k]) = "none"

orchUnchanged ==
  UNCHANGED <<SESSION_POLICY_CACHE, sessions, reqCount, prompt, session_id, validateArg,
              analyzeArg, decision, invoked, invocations, worker, workerResult, timedOut,
              result, faults, planVars, pureVars, storeVars>>

\* _evaluate_policy: what capture stores as metadata["policy"]: the result
\* `evaluated` of evaluate_policy for the cost, score and latency of the
\* request, or the "error" dict when the evaluation raises.
PolicyPass == Snapshot("pass", {}, {})
PolicyResults == {PolicyPass, WarnCost, FailCost}
evaluate_policy_wrapper(raises, evaluated) ==
  IF raises THEN Snapshot("error", {}, {}) ELSE evaluated

EnforcementAudit(action, applied) == [action |-> action, applied |-> applied]

\* TraceCollector._audit_enforcement: the lines it prints.  `routing` is the
\* decision as to_metadata wrote it: policy_enforcement is present only for an
\* applied record, canary is None or {eligible: True, sampled: ...}.
audit_enforcement(routing) ==
  IF routing.enforcement THEN <<EnforcementAudit("enforce_routing", TRUE)>>
  ELSE IF routing.canary = "sampled_out" THEN <<EnforcementAudit("canary_skip", FALSE)>>
  ELSE <<>>

\* TraceCollector.capture up to and including _audit_enforcement.  `F`: the
\* stages that raise when they are run; `enabled`: self._enabled when capture
\* is entered; `evaluated`: what evaluate_policy makes of the request.
Capture(enabled, F, evaluated) ==
  /\ pc = "capture"
  /\ IF ~enabled
     THEN /\ pc' = "return"
          /\ UNCHANGED <<trace, attempted, failed, captureRaised, audits>>
     ELSE LET run == StagesAttempted(CaptureStages, F) IN
          /\ trace' = IF "trace" \in run \ F
                      THEN ExecutionTrace(TRUE, TRUE, evaluate_policy_wrapper("policy" \in F, evaluated))
                      ELSE NoTrace
          /\ audits' = IF "audit" \in run \ F THEN audit_enforcement(result.routing) ELSE <<>>
          /\ attempted' = run \ {"publish"}
          /\ failed' = F \cap run
          /\ IF Escapes(CaptureStages, F)
             THEN captureRaised' = TRUE /\ pc' = "capture_failure"
             ELSE /\ captureRaised' = FALSE
                  /\ pc' = IF "publish" \in run THEN "publish" ELSE "return"
  /\ raisedBy' = IF pc' = "capture_failure" THEN "capture" ELSE raisedBy
  /\ UNCHANGED <<llmops, sendIdx, inFlight, sent>>
  /\ orchUnchanged

\* _publish_to_llmops -> publish_all: is_enabled() gates everything; a payload
\* builder that raises is caught by _publish_to_llmops.
PublishAll(enabled, builderRaises) ==
  /\ pc = "publish" /\ sendIdx = 0
  /\ attempted' = attempted \cup {"publish"}
  /\ llmops' = enabled
  /\ IF enabled /\ ~builderRaises
     THEN sendIdx' = 1 /\ pc' = "publish"
     ELSE sendIdx' = 0 /\ pc' = "return"
  /\ failed' = IF enabled /\ builderRaises THEN failed \cup {"publish"} ELSE failed
  /\ UNCHANGED <<trace, captureRaised, inFlight, sent, audits, raisedBy>>
  /\ orchUnchanged

\* _post: urlopen(req, timeout) is a blocking call on the calling thread
PostSend ==
  /\ pc = "publish" /\ sendIdx \in 1..5 /\ ~inFlight
  /\ inFlight' = TRUE
  /\ sent' = Append(sent, ENDPOINTS[sendIdx])
  /\ UNCHANGED <<pc, trace, attempted, failed, captureRaised, llmops, sendIdx, audits, raisedBy>>
  /\ orchUnchanged

\* the call comes back: a response, URLError, socket.timeout or anything else,
\* all of them swallowed
PostDone ==
  /\ pc = "publish" /\ inFlight
  /\ inFlight' = FALSE
  /\ IF sendIdx < 5 THEN sendIdx' = sendIdx + 1 /\ pc' = "publish"
                    ELSE sendIdx' = sendIdx /\ pc' = "return"
  /\ UNCHANGED <<trace, attempted, failed, captureRaised, llmops, sent, audits, raisedBy>>
  /\ orchUnchanged

\* `return result, decision`
Return ==
  /\ pc = "return"
  /\ pc' = "returned"
  /\ UNCHANGED <<captureVars, raisedBy>>
  /\ orchUnchanged

\* TraceCollector.capture_failure: trace, emit, save under one try
CaptureFailure(enabled, F) ==
  /\ pc = "capture_failure"
  /\ IF ~enabled
     THEN UNCHANGED <<trace, attempted, failed, captureRaised>>
     ELSE LET run == StagesAttempted(FailureStages, F) IN
          /\ trace' = IF "trace" \in run \ F THEN ExecutionTrace(TRUE, FALSE, NoSnapshot) ELSE NoTrace
          /\ attempted' = run
          /\ failed' = F \cap run
          /\ captureRaised' = Escapes(FailureStages, F)
  /\ pc' = "raise"
  /\ UNCHANGED <<llmops, sendIdx, inFlight, sent, audits, raisedBy>>
  /\ orchUnchanged

\* `raise` at the end of the outer handler
Raise ==
  /\ pc = "raise"
  /\ pc' = "raised"
  /\ UNCHANGED <<captureVars, raisedBy>>
  /\ orchUnchanged

\* The caller has its answer (or its exception); the call's locals are gone.
Reset ==
  /\ pc \in {"returned", "raised"}
  /\ pc' = "idle" /\ prompt' = NullPrompt /\ session_id' = "s1"
  /\ validateArg' = TRUE /\ analyzeArg' = TRUE
  /\ decision' = NoDecision /\ invoked' = "none" /\ invocations' = 0
  /\ worker' = "idle" /\ workerResult' = NoResult /\ timedOut' = FALSE
  /\ result' = NoResult /\ faults' = {} /\ raisedBy' = "none"
  /\ trace' = NoTrace /\ attempted' = {} /\ failed' = {} /\ captureRaised' = FALSE
  /\ llmops' = FALSE /\ sendIdx' = 0 /\ inFlight' = FALSE /\ sent' = <<>> /\ audits' = <<>>
  /\ UNCHANGED <<SESSION_POLICY_CACHE, sessions, reqCount, planVars, pureVars, storeVars>>

(* ----------------------------- execute_plan ---------------------------- *)
\* Values a step can carry as output (StepResult.output is typed Any), by
\* Python type; `val` tells values of one type apart.
PyValue(type, val) == [type |-> type, val |-> val]
PyNone == PyValue("NoneType", 0)
NO_STEPS_EXECUTED == PyValue("str", 100)      \* "No steps executed."
EXECUTION_CRASHED == PyValue("str", 101)      \* "Execution crashed: ..."

\* str(x): a string is itself, None is the text "None", any other object is
\* its printed form; an object whose __str__ raises has none.
StrRaises(x) == x.type = "unprintable"
Str(x) ==
  CASE x.type = "str" -> x
    [] x.type = "NoneType" -> PyValue("str", 102)
    [] OTHER -> PyValue("str", 200 + x.val)

AGENTS == {"retrieval", "general", "critic"}
Roles == {"general", "retrieval_agent", "unknown_agent"}

\* self.agents.get(role), then the two aliases
ResolveAgent(role) ==
  IF role \in AGENTS THEN role
  ELSE IF role = "retrieval_agent" THEN "retrieval"
  ELSE IF role = "general_agent" THEN "general"
  ELSE "none"

PlanStep(id, role, deps) == [step_id |-> id, agent_role |-> role, depends_on |-> deps]
\* Plans: step ids are the 1-based positions; a step depends on nothing or
\* on the step declared after it.
Plans ==
  UNION {
    {[i \in 1..n |-> PlanStep(i, f[i][1], IF f[i][2] /\ i < n THEN {i + 1} ELSE {})] :
       f \in [1..n -> Roles \X BOOLEAN]} : n \in 0..MaxSteps}
NoPlan == <<>>

StepResult(id, role, status, output, error) ==
  [step_id |-> id, agent_role |-> role, status |-> status, output |-> output, error |-> error]

\* What awaiting agent.execute can do: return a response whose answer is a
\* string, a dict or an object that cannot be printed, or raise an exception
\* whose message can or cannot be printed.
AgentOutcomes == {"str", "dict", "unprintable", "raise", "raise_unprintable"}

\* _execute_step: the StepResult, or `escaped` when an exception leaves it
\* (str(e) raising inside the except clause).
execute_step(step, outcome) ==
  IF ResolveAgent(step.agent_role) = "none"
  THEN [escaped |-> FALSE,
        result |-> StepResult(step.step_id, step.agent_role, "failed", PyNone, "no_agent_found")]
  ELSE IF outcome \in {"str", "dict", "unprintable"}
  THEN [escaped |-> FALSE,
        result |-> StepResult(step.step_id, step.agent_role, "completed",
                              PyValue(outcome, step.step_id), "none")]
  ELSE IF outcome = "raise"
  THEN [escaped |-> FALSE,
        result |-> StepResult(step.step_id, step.agent_role, "failed", PyNone, "exception")]
  ELSE [escaped |-> TRUE,
        result |-> StepResult(step.step_id, step.agent_role, "failed", PyNone, "none")]

\* the loop as it would be without its break
AbortsLoopNever(step_result) == FALSE

\* `if step_result.status == StepStatus.FAILED: ... break`
AbortsLoop(step_result) == step_result.status = "failed"

\* the synthesis as it would be reading results[0]
SynthesizeFromFirstStep(rs) ==
  IF rs # <<>> THEN Str(rs[1].output) ELSE NO_STEPS_EXECUTED

\* `final_output = str(results[-1].output)` / "No steps executed."
SynthesizeFinalOutput(rs) ==
  IF rs # <<>> THEN Str(rs[Len(rs)].output) ELSE NO_STEPS_EXECUTED
SynthesizeRaises(rs) == rs # <<>> /\ StrRaises(rs[Len(rs)].output)

planUnchanged == UNCHANGED <<orchVars, captureVars, plan, pureVars, storeVars>>

\* The `except Exception` of execute_plan: status FAILED and the crash text.
CrashBranch ==
  /\ global_status' = "failed"
  /\ final_output' = EXECUTION_CRASHED
  /\ crashed' = TRUE
  /\ planPc' = "done"

\* One iteration of `for step in plan.steps`, up to the break and the return
\* that follows it.
ExecuteStep(outcome) ==
  /\ planPc = "loop" /\ Len(results) < Len(plan)
  /\ LET step == plan[Len(results) + 1]
         r == execute_step(step, outcome)
     IN /\ executed' = Append(executed, step.step_id)
        /\ IF r.escaped
           THEN CrashBranch /\ UNCHANGED results
           ELSE /\ results' = Append(results, r.result)
                /\ IF AbortsLoop(r.result)
                   THEN /\ global_status' = "failed" /\ planPc' = "done"
                        /\ UNCHANGED <<final_output, crashed>>
                   ELSE UNCHANGED <<global_status, final_output, crashed, planPc>>
  /\ planUnchanged

\* The loop ran out of steps: lines 313-319, then the return.
FinishPlan ==
  /\ planPc = "loop" /\ Len(results) = Len(plan)
  /\ IF global_status # "failed"
     THEN IF SynthesizeRaises(results)
          THEN CrashBranch
          ELSE /\ global_status' = "completed"
               /\ final_output' = SynthesizeFinalOutput(results)
               /\ planPc' = "done"
               /\ UNCHANGED crashed
     ELSE planPc' = "done" /\ UNCHANGED <<global_status, final_output, crashed>>
  /\ UNCHANGED <<results, executed>>
  /\ planUnchanged

(* --------------------------- specification ----------------------------- *)

Init ==
  /\ SESSION_POLICY_CACHE = [s \in Sessions |-> NoSnapshot]
  /\ sessions = [s \in Sessions |-> <<>>]
  /\ reqCount = 0
  /\ pc = "idle" /\ prompt = NullPrompt /\ session_id = "s1"
  /\ validateArg = TRUE /\ analyzeArg = TRUE
  /\ decision = NoDecision /\ invoked = "none" /\ invocations = 0
  /\ worker = "idle" /\ workerResult = NoResult /\ timedOut = FALSE
  /\ result = NoResult /\ faults = {} /\ raisedBy = "none"
  /\ trace = NoTrace /\ attempted = {} /\ failed = {} /\ captureRaised = FALSE
  /\ llmops = FALSE /\ sendIdx = 0 /\ inFlight = FALSE /\ sent = <<>> /\ audits = <<>>
  /\ plan = NoPlan /\ results = <<>> /\ global_status = "running"
  /\ final_output = PyNone /\ planPc = "off" /\ crashed = FALSE /\ executed = <<>>
  /\ PureIdle /\ StoreIdle

\* Fault plans of the sink during a request: it works, or emit raises.
SinkFaults == {{}, {"emit"}}

CoordinatorStep ==
  \/ FutureResult
  \/ FutureTimeout
  \/ PoolExit
  \/ \E u, a \in BOOLEAN : PostProcess(u, a)
  \/ \E en \in BOOLEAN, F \in SinkFaults : Capture(en, F, PolicyPass)
  \/ \E en, br \in BOOLEAN : PublishAll(en, br)
  \/ PostSend
  \/ PostDone
  \/ Return
  \/ \E en \in BOOLEAN, F \in SinkFaults : CaptureFailure(en, F)
  \/ Raise

Next ==
  \/ \E p \in Prompts, s \in Sessions, v, a, rf \in BOOLEAN : BeginRequest(p, s, v, a, rf)
  \/ \E r \in run_agent(invoked) : WorkerReturn(r)
  \/ WorkerRaise
  \/ CoordinatorStep
  \/ Reset

Spec == Init /\ [][Next]_vars

(* ------------------- capture on its own: CaptureSpec -------------------- *)
\* capture entered with the result of a finished request, every stage free
\* to raise.
CaptureFaults == SUBSET {"cost", "policy", "sla", "trace", "emit", "save", "audit"}

CaptureInit ==
  \E before \in {NoSnapshot} \cup PolicySnapshots :
    /\ reqCount = 1
    /\ pc = "capture" /\ session_id = "s1"
    /\ prompt \in {q \in Prompts : q.isText}
    /\ validateArg = TRUE /\ analyzeArg = TRUE
    /\ decision = SafePlan(prompt, before)
    /\ invoked = decision.selected_agent /\ invocations = 1
    /\ worker = "done" /\ timedOut = FALSE
    /\ workerResult \in {r \in run_agent(invoked) : r.shape = "AgentResult" /\ r.output.isText}
    /\ result = RunScorers([workerResult EXCEPT !.routing = decision]).result
    /\ SESSION_POLICY_CACHE =
         [s \in Sessions |-> IF s # "s1" THEN NoSnapshot
                             ELSE IF workerResult.policy.kind = "dict" THEN workerResult.policy
                             ELSE before]
    /\ sessions = [s \in Sessions |-> IF s = "s1" THEN <<Turn("user", 1), Turn("assistant", 1)>>
                                      ELSE <<>>]
    /\ faults = {} /\ raisedBy = "none"
    /\ trace = NoTrace /\ attempted = {} /\ failed = {} /\ captureRaised = FALSE
    /\ llmops = FALSE /\ sendIdx = 0 /\ inFlight = FALSE /\ sent = <<>> /\ audits = <<>>
    /\ plan = NoPlan /\ results = <<>> /\ global_status = "running"
    /\ final_output = PyNone /\ planPc = "off" /\ crashed = FALSE /\ executed = <<>>
    /\ PureIdle /\ StoreIdle

CaptureNext ==
  \/ \E en \in BOOLEAN, F \in CaptureFaults, pol \in PolicyResults : Capture(en, F, pol)
  \/ \E en, br \in BOOLEAN : PublishAll(en, br)
  \/ PostSend
  \/ PostDone

CaptureSpec == CaptureInit /\ [][CaptureNext]_vars

(* -------------------- execute_plan on its own: PlanSpec ----------------- *)
PlanInit ==
  /\ SESSION_POLICY_CACHE = [s \in Sessions |-> NoSnapshot]
  /\ sessions = [s \in Sessions |-> <<>>]
  /\ reqCount = 0
  /\ pc = "idle" /\ prompt = NullPrompt /\ session_id = "s1"
  /\ validateArg = TRUE /\ analyzeArg = TRUE
  /\ decision = NoDecision /\ invoked = "none" /\ invocations = 0
  /\ worker = "idle" /\ workerResult = NoResult /\ timedOut = FALSE
  /\ result = NoResult /\ faults = {} /\ raisedBy = "none"
  /\ trace = NoTrace /\ attempted = {} /\ failed = {} /\ captureRaised = FALSE
  /\ llmops = FALSE /\ sendIdx = 0 /\ inFlight = FALSE /\ sent = <<>> /\ audits = <<>>
  /\ plan \in Plans /\ results = <<>> /\ global_status = "running"
  /\ final_output = PyNone /\ planPc = "loop" /\ crashed = FALSE /\ executed = <<>>
  /\ PureIdle /\ StoreIdle

PlanNext ==
  \/ \E o \in AgentOutcomes : ExecuteStep(o)
  \/ FinishPlan

PlanSpec == PlanInit /\ [][PlanNext]_vars

(* ------------------- the planners on their own: PlannerSpec ------------- *)
\* a prompt that is neither None nor a str
ObjectPrompt == [isText |-> FALSE, words |-> <<"object">>]
PlannerPrompts ==
  {NullPrompt, ObjectPrompt} \cup
  {TextPrompt(w) : w \in UNION {[1..n -> Words \cup {WHITESPACE}] : n \in 0..MaxPlannerPromptLen}}

\* policy_context values: None, the empty dict, and evaluation results
PlannerSnapshots ==
  {NoSnapshot, Snapshot("none", {}, {})} \cup
  {Snapshot(st, v, w) : st \in {"pass", "warn", "fail"},
                        v \in {{}, {"high_cost"}, {"low_score"}},
                        w \in {{}, {"elevated_cost"}, {"marginal_score"}}}
  \cup {Snapshot("fail", v, {}) :
          v \in {{"high_latency"}, {"high_cost", "low_score"},
                 {"low_score", "high_latency"}, {"invalid_output"}}}
  \cup {Snapshot("warn", {}, w) :
          w \in {{"elevated_latency"}, {"elevated_cost", "marginal_score"},
                 {"marginal_score", "elevated_latency"}}}

\* values the class attributes of EnforcementConfig can hold
EnforcementConfigs ==
  {EnforcementConfig(k, r, [enabled |-> c, tier |-> t, percentage |-> pct]) :
     k \in BOOLEAN, r \in {{}, {"cost_guard"}}, c \in BOOLEAN,
     t \in {"free", "pro"}, pct \in {0, 5, 100}}

PlannerAgentCalls ==
  {[fn |-> "PlannerAgent.plan", prompt |-> q, fault |-> f] :
     q \in PlannerPrompts, f \in BOOLEAN}
OrchestrationPlannerCalls ==
  {[fn |-> "OrchestrationPlanner.plan", prompt |-> q, policy_context |-> ctx,
    config |-> cfg, plannerRaises |-> f] :
     q \in Prompts \cup {ObjectPrompt}, ctx \in PlannerSnapshots,
     cfg \in EnforcementConfigs, f \in BOOLEAN}

Returns(v) == [status |-> "returned", raised |-> FALSE, value |-> v]
Raises == [status |-> "raised", raised |-> TRUE, value |-> "none"]

PlannerAgent_call(c) == Returns(PlannerAgent_plan_faulted(c.prompt, c.fault))
OrchestrationPlanner_call(c) ==
  LET r == plan_under(c.config, c.prompt, c.policy_context, c.plannerRaises)
  IN IF r.raised THEN Raises ELSE Returns(r.decision)

othersUnchanged == UNCHANGED <<orchVars, captureVars, planVars, storeVars>>

CallPlannerAgent ==
  /\ call.fn = "PlannerAgent.plan" /\ Pending(ret)
  /\ ret' = PlannerAgent_call(call)
  /\ UNCHANGED <<call, again>> /\ othersUnchanged

PlannerAgentAgain ==
  /\ call.fn = "PlannerAgent.plan" /\ ~Pending(ret) /\ Pending(again)
  /\ again' = PlannerAgent_call(call)
  /\ UNCHANGED <<call, ret>> /\ othersUnchanged

CallOrchestrationPlanner ==
  /\ call.fn = "OrchestrationPlanner.plan" /\ Pending(ret)
  /\ ret' = OrchestrationPlanner_call(call)
  /\ UNCHANGED <<call, again>> /\ othersUnchanged

OrchestrationPlannerAgain ==
  /\ call.fn = "OrchestrationPlanner.plan" /\ ~Pending(ret) /\ Pending(again)
  /\ again' = OrchestrationPlanner_call(call)
  /\ UNCHANGED <<call, ret>> /\ othersUnchanged

\* every variable of orchestrate, capture and execute_plan at rest
ControlPlaneIdle ==
  /\ SESSION_POLICY_CACHE = [s \in Sessions |-> NoSnapshot]
  /\ sessions = [s \in Sessions |-> <<>>]
  /\ reqCount = 0
  /\ pc = "idle" /\ prompt = NullPrompt /\ session_id = "s1"
  /\ validateArg = TRUE /\ analyzeArg = TRUE
  /\ decision = NoDecision /\ invoked = "none" /\ invocations = 0
  /\ worker = "idle" /\ workerResult = NoResult /\ timedOut = FALSE
  /\ result = NoResult /\ faults = {} /\ raisedBy = "none"
  /\ trace = NoTrace /\ attempted = {} /\ failed = {} /\ captureRaised = FALSE
  /\ llmops = FALSE /\ sendIdx = 0 /\ inFlight = FALSE /\ sent = <<>> /\ audits = <<>>
  /\ plan = NoPlan /\ results = <<>> /\ global_status = "running"
  /\ final_output = PyNone /\ planPc = "off" /\ crashed = FALSE /\ executed = <<>>

PlannerInit ==
  /\ ControlPlaneIdle /\ StoreIdle
  /\ call \in PlannerAgentCalls \cup OrchestrationPlannerCalls
  /\ ret = NoRet /\ again = NoRet

PlannerNext ==
  \/ CallPlannerAgent
  \/ PlannerAgentAgain
  \/ CallOrchestrationPlanner
  \/ OrchestrationPlannerAgain

PlannerSpec == PlannerInit /\ [][PlannerNext]_vars

(* ---------------------- the Critic on its own: CriticSpec --------------- *)
\* Values the Critic reads.  A text is the set of its words; a chunk is the
\* set of words of its extractable text; a list is a list of chunks; a dict
\* is a retrieval output {"chunks": [...]}.  A score is a fraction num/den.
MaxChunks == 3

CriticValue(type, words, chunks) == [type |-> type, words |-> words, chunks |-> chunks]
Absent == CriticValue("absent", {}, <<>>)
CNone == CriticValue("NoneType", {}, <<>>)
CText(ws) == CriticValue("str", ws, <<>>)
CList(cs) == CriticValue("list", {}, cs)
CDict(cs) == CriticValue("dict", {}, cs)

\* bool(x)
CriticTruthy(x) ==
  CASE x.type = "str" -> x.words # {}
    [] x.type = "list" -> Len(x.chunks) > 0
    [] x.type = "dict" -> TRUE
    [] OTHER -> FALSE

\* str.lower() on a word
Lower(w) == IF w = "Paris" THEN "paris" ELSE w
STOP_WORDS == {"the", "a", "an", "is", "are", "of", "in"}

Score(num, den) == [num |-> num, den |-> den]
\* score < t/10 and score >= t/10
Below(s, tenths) == 10 * s.num < tenths * s.den
AtLeast(s, tenths) == ~Below(s, tenths)

\* Issue texts, lower-cased and split into words; the formatted score of the
\* grounding issues is left out.
NO_GROUNDING == <<"no", "grounding", "context", "available">>
NO_OUTPUT == <<"no", "output", "to", "evaluate">>
NO_EXTRACTABLE == <<"retrieved", "chunks", "contain", "no", "extractable", "text">>
NO_SUBSTANTIVE == <<"output", "contains", "no", "substantive", "content", "to", "evaluate">>
LOW_GROUNDING == <<"low", "grounding", "score", "output", "may", "not", "be", "supported", "by", "context">>
MODERATE_GROUNDING == <<"moderate", "grounding", "score", "some", "claims", "may", "be", "unsupported">>
MISSING_SOURCE == <<"missing", "metadata", "source">>
MISSING_TIMESTAMP == <<"missing", "metadata", "timestamp">>
EXECUTION_FAILED == <<"execution", "failed">>

\* kw in issue.lower()
IssueContains(issue, kw) ==
  \E i \in 0..(Len(issue) - Len(kw)) : \A j \in 1..Len(kw) : issue[i + j] = kw[j]
AnyIssueContains(issues, kws) ==
  \E n \in DOMAIN issues : \E kw \in kws : IssueContains(issues[n], kw)

\* _build_context_corpus: the chunk texts joined by a space; the corpus is
\* the empty string only when there is a single chunk with no text.
CorpusWords(chunks) == UNION {chunks[i] : i \in DOMAIN chunks}
CorpusEmpty(chunks) == Len(chunks) <= 1 /\ CorpusWords(chunks) = {}

\* _check_grounding: <<grounding_score, issues>>
check_grounding(proposed_output, retrieved_chunks) ==
  LET output_keywords == {Lower(w) : w \in proposed_output.words} \ STOP_WORDS
      context_keywords == {Lower(w) : w \in CorpusWords(retrieved_chunks)} \ STOP_WORDS
      overlap == output_keywords \cap context_keywords
      grounding_score == Score(Cardinality(overlap), Cardinality(output_keywords))
  IN IF CorpusEmpty(retrieved_chunks) THEN <<Score(0, 1), <<NO_EXTRACTABLE>>>>
     ELSE IF output_keywords = {} THEN <<Score(1, 2), <<NO_SUBSTANTIVE>>>>
     ELSE IF Below(grounding_score, 3) THEN <<grounding_score, <<LOW_GROUNDING>>>>
     ELSE IF Below(grounding_score, 5) THEN <<grounding_score, <<MODERATE_GROUNDING>>>>
     ELSE <<grounding_score, <<>>>>

\* _check_metadata_completeness
check_metadata_completeness(metadata) ==
  (IF "source" \in metadata THEN <<>> ELSE <<MISSING_SOURCE>>)
  \o (IF "timestamp" \in metadata THEN <<>> ELSE <<MISSING_TIMESTAMP>>)

\* _compute_confidence, in units of 1/(10 * den)
compute_confidence(grounding_score, num_chunks, num_issues) ==
  LET den == grounding_score.den
      base == 6 * grounding_score.num
      boost == IF num_chunks >= 3 THEN 2 * den ELSE IF num_chunks >= 1 THEN den ELSE 0
      issue_penalty == Min(num_issues, 3) * den
  IN Score(Max(0, Min(10 * den, base + boost - issue_penalty)), 10 * den)

CRITICAL_KEYWORDS == {<<"no", "grounding">>, <<"no", "output">>, <<"no", "extractable">>}
SEVERE_KEYWORDS == {<<"no", "grounding">>, <<"no", "output">>, <<"unsupported">>}

\* _assess_risk without its second rule
assess_risk_without_low_score_rule(issues, grounding_score, confidence_score) ==
  IF AnyIssueContains(issues, CRITICAL_KEYWORDS) THEN "high"
  ELSE IF Len(issues) > 2 \/ Below(grounding_score, 5) THEN "medium"
  ELSE IF AtLeast(confidence_score, 6) /\ Len(issues) <= 1 THEN "low"
  ELSE "medium"

\* _assess_risk
assess_risk(issues, grounding_score, confidence_score) ==
  IF AnyIssueContains(issues, CRITICAL_KEYWORDS) THEN "high"
  ELSE IF Below(grounding_score, 2) THEN "high"
  ELSE IF Len(issues) > 2 \/ Below(grounding_score, 5) THEN "medium"
  ELSE IF AtLeast(confidence_score, 6) /\ Len(issues) <= 1 THEN "low"
  ELSE "medium"

compute_recommendation_never_blocks(risk_level, issues) ==
  IF risk_level = "low" THEN "proceed" ELSE "warn"

\* _compute_recommendation
compute_recommendation(risk_level, issues) ==
  IF risk_level = "high" THEN "block"
  ELSE IF risk_level = "medium"
       THEN IF AnyIssueContains(issues, SEVERE_KEYWORDS) THEN "block" ELSE "warn"
  ELSE "proceed"

IsSafeUnlessBlocked(recommendation) == recommendation # "block"

\* is_safe = recommendation == Recommendation.PROCEED
IsSafe(recommendation) == recommendation = "proceed"

CriticResult(is_safe, risk_level, issues, recommendation, grounding_score, confidence_score) ==
  [is_safe |-> is_safe, risk_level |-> risk_level, issues |-> issues,
   recommendation |-> recommendation, grounding_score |-> grounding_score,
   confidence_score |-> confidence_score]

\* The checks both entry points run once the chunks, the output and the
\* metadata have been collected.
Evaluate(first_issues, retrieved_chunks, proposed_output, metadata) ==
  LET presence ==
        first_issues
        \o (IF Len(retrieved_chunks) = 0 THEN <<NO_GROUNDING>> ELSE <<>>)
        \o (IF proposed_output.type \in {"NoneType", "absent"} THEN <<NO_OUTPUT>> ELSE <<>>)
      grounding ==
        IF Len(retrieved_chunks) > 0 /\ CriticTruthy(proposed_output)
        THEN check_grounding(proposed_output, retrieved_chunks)
        ELSE <<Score(0, 1), <<>>>>
      grounding_score == grounding[1]
      issues == presence \o grounding[2] \o check_metadata_completeness(metadata)
      confidence_score == compute_confidence(grounding_score, Len(retrieved_chunks), Len(issues))
      risk_level == assess_risk(issues, grounding_score, confidence_score)
      recommendation == compute_recommendation(risk_level, issues)
  IN CriticResult(IsSafe(recommendation), risk_level, issues, recommendation,
                  grounding_score, confidence_score)

RETRIEVAL_ROLES == {"retrieval", "retrieval_agent"}
GENERATOR_ROLES == {"general", "general_agent", "generator"}

PreviousResult(role, output, metadata) ==
  [agent_role |-> role, output |-> output, metadata |-> metadata]
InputData(chunks, output, metadata) ==
  [retrieved_chunks |-> chunks, proposed_output |-> output, metadata |-> metadata]
NoInput == InputData(Absent, Absent, {})

\* the chunks a retrieval output stands for in _extract_input_data
ChunksOf(output) ==
  CASE output.type \in {"dict", "list"} -> output.chunks
    [] output.type = "str" /\ output.words # {} -> <<output.words>>
    [] OTHER -> <<>>

\* _extract_input_data: step.input first, then every previous result in turn;
\* a later retrieval or generation result replaces what is there.
RECURSIVE ExtractFrom(_, _, _)
ExtractFrom(data, previous_results, i) ==
  IF i > Len(previous_results) THEN data
  ELSE LET prev == previous_results[i]
           d1 == IF prev.agent_role \in RETRIEVAL_ROLES
                 THEN [data EXCEPT !.retrieved_chunks = CList(ChunksOf(prev.output))]
                 ELSE IF prev.agent_role \in GENERATOR_ROLES
                 THEN [data EXCEPT !.proposed_output = prev.output]
                 ELSE data
           d2 == [d1 EXCEPT !.metadata = @ \cup prev.metadata]
       IN ExtractFrom(d2, previous_results, i + 1)
extract_input_data(step_input, previous_results) ==
  ExtractFrom(IF step_input.type = "dict" THEN step_input.data ELSE NoInput,
              previous_results, 1)

\* CriticAgent.run_step: the CriticResult and the number of chunks evaluated
CriticAgent_run_step(step_input, previous_results) ==
  LET input_data == extract_input_data(step_input, previous_results)
      retrieved_chunks ==
        IF input_data.retrieved_chunks.type = "absent" THEN <<>>
        ELSE input_data.retrieved_chunks.chunks
  IN [output |-> Evaluate(<<>>, retrieved_chunks, input_data.proposed_output, input_data.metadata),
      num_chunks_evaluated |-> Len(retrieved_chunks)]

\* the loop of validate_from_execution: chunks accumulate, the last
\* generation output wins, metadata is merged
RECURSIVE CollectFrom(_, _, _)
CollectFrom(data, step_results, i) ==
  IF i > Len(step_results) THEN data
  ELSE LET sr == step_results[i]
           d1 == IF sr.agent_role \in RETRIEVAL_ROLES
                 THEN [data EXCEPT !.retrieved_chunks =
                                      CList(@.chunks \o ChunksOf(sr.output))]
                 ELSE IF sr.agent_role \in GENERATOR_ROLES
                 THEN [data EXCEPT !.proposed_output = sr.output]
                 ELSE data
           d2 == [d1 EXCEPT !.metadata = @ \cup sr.metadata]
       IN CollectFrom(d2, step_results, i + 1)

ExecutionResult(status, step_results, final) ==
  [status |-> status, step_results |-> step_results, final_output |-> final]

\* CriticAgent.validate_from_execution
CriticAgent_validate_from_execution(execution_result) ==
  LET data == CollectFrom(InputData(CList(<<>>), CNone, {}), execution_result.step_results, 1)
      proposed_output ==
        IF data.proposed_output.type = "NoneType" THEN execution_result.final_output
        ELSE data.proposed_output
  IN Evaluate(IF execution_result.status = "failed" THEN <<EXECUTION_FAILED>> ELSE <<>>,
              data.retrieved_chunks.chunks, proposed_output, data.metadata)

\* Inputs.  Chunk lists hold one to MaxChunks chunks of the same text.
ANSWER == {"Paris", "france", "capital"}
ChunkTexts == {{}, {"paris"}, {"paris", "france"}, {"paris", "france", "capital"}}
ChunkLists == {<<>>} \cup {[i \in 1..n |-> t] : t \in ChunkTexts, n \in 1..MaxChunks}
ProposedOutputs ==
  {CNone, CText({}), CText({"the"}), CText({"Paris"}), CText(ANSWER),
   CText({"city"}), CText(ANSWER \cup {"city"})}
Metadatas == {{}, {"source"}, {"source", "timestamp"}}
RetrievalOutputs ==
  {CNone, CText({"paris"})} \cup {CList(c) : c \in ChunkLists} \cup {CDict(c) : c \in ChunkLists}
RetrievalResults ==
  {PreviousResult("retrieval", o, m) : o \in RetrievalOutputs, m \in Metadatas}
GenerationResults ==
  {PreviousResult("generator", o, m) : o \in ProposedOutputs, m \in Metadatas}
\* the results a retrieve-generate-validate plan leaves behind
StepResultLists ==
  {<<>>} \cup {<<r>> : r \in RetrievalResults \cup GenerationResults}
         \cup {<<r, g>> : r \in RetrievalResults, g \in GenerationResults}
         \cup {<<g, r>> : g \in {PreviousResult("general_agent", CText(ANSWER), {"source", "timestamp"})},
                          r \in RetrievalResults}
StepInputs ==
  {[type |-> "NoneType", data |-> NoInput]}
  \cup {[type |-> "dict", data |-> InputData(CList(c), o, m)] :
          c \in ChunkLists, o \in ProposedOutputs, m \in Metadatas}
RunStepCalls ==
  {[fn |-> "CriticAgent.run_step", input |-> si, previous_results |-> pr] :
     si \in StepInputs, pr \in {s \in StepResultLists : Len(s) <= 1}}
  \cup {[fn |-> "CriticAgent.run_step", input |-> [type |-> "NoneType", data |-> NoInput],
         previous_results |-> pr] : pr \in StepResultLists}
ValidateCalls ==
  {[fn |-> "CriticAgent.validate_from_execution",
    execution_result |-> ExecutionResult(st, sr, fo)] :
     st \in {"completed", "failed"}, sr \in StepResultLists,
     fo \in {CNone, CText(ANSWER)}}

CallRunStep ==
  /\ call.fn = "CriticAgent.run_step" /\ Pending(ret)
  /\ ret' = Returns(CriticAgent_run_step(call.input, call.previous_results).output)
  /\ UNCHANGED <<call, again>>
  /\ othersUnchanged

CallValidateFromExecution ==
  /\ call.fn = "CriticAgent.validate_from_execution" /\ Pending(ret)
  /\ ret' = Returns(CriticAgent_validate_from_execution(call.execution_result))
  /\ UNCHANGED <<call, again>>
  /\ othersUnchanged

CriticInit ==
  /\ ControlPlaneIdle /\ StoreIdle
  /\ call \in RunStepCalls \cup ValidateCalls
  /\ ret = NoRet
  /\ again = NoRet
CriticNext == CallRunStep \/ CallValidateFromExecution
CriticSpec == CriticInit /\ [][CriticNext]_vars

(* --------------- the policy evaluator on its own: PolicySpec ------------ *)
\* A metadata value is a number, None, a string, or absent.  Costs are in
\* units of 0.0001 USD, scores in tenths, latencies in seconds.
MetaValue(type, val) == [type |-> type, val |-> val]
Num(n) == MetaValue("num", n)
MetaAbsent == MetaValue("absent", 0)
MetaNone == MetaValue("NoneType", 0)
MetaStr == MetaValue("str", 0)

PolicyConfig(thresholds, flags) ==
  [max_cost_usd |-> thresholds.max_cost_usd, warn_cost_usd |-> thresholds.warn_cost_usd,
   min_evaluation_score |-> thresholds.min_evaluation_score,
   warn_evaluation_score |-> thresholds.warn_evaluation_score,
   max_latency_ms |-> thresholds.max_latency_ms, warn_latency_ms |-> thresholds.warn_latency_ms,
   require_valid_output |-> flags.require_valid_output, enabled |-> flags.enabled,
   cost_policy_enabled |-> flags.cost_policy_enabled,
   score_policy_enabled |-> flags.score_policy_enabled,
   latency_policy_enabled |-> flags.latency_policy_enabled,
   validation_policy_enabled |-> flags.validation_policy_enabled]
DEFAULT_THRESHOLD_VALUES ==
  [max_cost_usd |-> 10, warn_cost_usd |-> 5, min_evaluation_score |-> 5,
   warn_evaluation_score |-> 6, max_latency_ms |-> 30, warn_latency_ms |-> 10]
DEFAULT_FLAGS ==
  [require_valid_output |-> TRUE, enabled |-> TRUE, cost_policy_enabled |-> TRUE,
   score_policy_enabled |-> TRUE, latency_policy_enabled |-> TRUE,
   validation_policy_enabled |-> TRUE]
DEFAULT_CONFIG == PolicyConfig(DEFAULT_THRESHOLD_VALUES, DEFAULT_FLAGS)

PolicyResult(status, violations, warnings, checked_rules, enabled) ==
  [status |-> status, violations |-> violations, warnings |-> warnings,
   checked_rules |-> checked_rules, enabled |-> enabled]

\* the value a numeric comparison reads: metadata.get(key, 0)
Read(v) == IF v.type = "absent" THEN Num(0) ELSE v
\* `x > y` and `x < y` raise TypeError unless x is a number
CompareRaises(v) == v.type # "num"

\* the violation / warning pair of a check that fires above its thresholds
CheckAbove(v, max, warn, violation, warning) ==
  IF v.val > max THEN [violations |-> <<violation>>, warnings |-> <<>>]
  ELSE IF v.val > warn THEN [violations |-> <<>>, warnings |-> <<warning>>]
  ELSE [violations |-> <<>>, warnings |-> <<>>]
\* and of the score check, which fires below them
CheckBelow(v, min, warn, violation, warning) ==
  IF v.val < min THEN [violations |-> <<violation>>, warnings |-> <<>>]
  ELSE IF v.val < warn THEN [violations |-> <<>>, warnings |-> <<warning>>]
  ELSE [violations |-> <<>>, warnings |-> <<>>]
Nothing == [violations |-> <<>>, warnings |-> <<>>]

DetermineStatusWarnFirst(violations, warnings) ==
  IF warnings # <<>> THEN "warn" ELSE IF violations # <<>> THEN "fail" ELSE "pass"

\* "Determine overall status"
DetermineStatus(violations, warnings) ==
  IF violations # <<>> THEN "fail" ELSE IF warnings # <<>> THEN "warn" ELSE "pass"

\* the score the score policy reads: evaluation.get("score") of a dict,
\* None when the entry is not a dict
ScoreRead(metadata) ==
  IF metadata.evaluation_is_dict /\ metadata.score.type # "absent"
  THEN metadata.score ELSE MetaNone
\* validation.get("is_valid") of a dict, True when the entry is not a dict
IsValidRead(metadata) ==
  IF metadata.validation_is_dict THEN metadata.is_valid ELSE "True"

\* an exception inside the try block
EvaluationRaises(metadata, config) ==
  \/ config.cost_policy_enabled /\ CompareRaises(Read(metadata.estimated_cost_usd))
  \/ /\ config.score_policy_enabled
     /\ ScoreRead(metadata).type # "NoneType"
     /\ CompareRaises(ScoreRead(metadata))
  \/ config.latency_policy_enabled /\ CompareRaises(Read(metadata.latency_ms))

evaluate_policy(metadata, config) ==
  IF ~config.enabled THEN PolicyResult("pass", <<>>, <<>>, 0, FALSE)
  ELSE IF EvaluationRaises(metadata, config)
  THEN PolicyResult("error", <<"evaluation_error">>, <<>>, 0, TRUE)
  ELSE
    LET cost == IF config.cost_policy_enabled
                THEN CheckAbove(Read(metadata.estimated_cost_usd), config.max_cost_usd,
                                config.warn_cost_usd, "high_cost", "elevated_cost")
                ELSE Nothing
        score == IF config.score_policy_enabled /\ ScoreRead(metadata).type # "NoneType"
                 THEN CheckBelow(ScoreRead(metadata), config.min_evaluation_score,
                                 config.warn_evaluation_score, "low_score", "marginal_score")
                 ELSE Nothing
        latency == IF config.latency_policy_enabled
                   THEN CheckAbove(Read(metadata.latency_ms), config.max_latency_ms,
                                   config.warn_latency_ms, "high_latency", "elevated_latency")
                   ELSE Nothing
        validity_checked == config.validation_policy_enabled /\ config.require_valid_output
        validity == IF validity_checked /\ IsValidRead(metadata) = "False"
                    THEN <<"invalid_output">> ELSE <<>>
        violations == cost.violations \o score.violations \o latency.violations \o validity
        warnings == cost.warnings \o score.warnings \o latency.warnings
        checked == (IF config.cost_policy_enabled THEN 1 ELSE 0)
                   + (IF config.score_policy_enabled THEN 1 ELSE 0)
                   + (IF config.latency_policy_enabled THEN 1 ELSE 0)
                   + (IF validity_checked THEN 1 ELSE 0)
    IN PolicyResult(DetermineStatus(violations, warnings), violations, warnings, checked, TRUE)

\* Inputs: values below, between, at and above the thresholds, and values
\* that are not numbers.
Costs == {MetaAbsent, Num(5), Num(7), Num(10), Num(20), MetaNone}
Scores == {MetaAbsent, MetaNone, Num(4), Num(5), Num(6), MetaStr}
Latencies == {MetaAbsent, Num(10), Num(20), Num(31), MetaStr}
Validities == {"True", "False", "None"}
Metadata(cost, evaluation_is_dict, score, latency, validation_is_dict, is_valid) ==
  [estimated_cost_usd |-> cost, evaluation_is_dict |-> evaluation_is_dict, score |-> score,
   latency_ms |-> latency, validation_is_dict |-> validation_is_dict, is_valid |-> is_valid]
PolicyMetadatas ==
  {Metadata(c, TRUE, s, l, TRUE, v) : c \in Costs, s \in Scores, l \in Latencies, v \in Validities}
  \cup {Metadata(c, FALSE, Num(4), MetaAbsent, FALSE, "False") : c \in Costs}
\* thresholds as shipped, and with the warning thresholds beyond the limits
ThresholdValues ==
  {DEFAULT_THRESHOLD_VALUES,
   [max_cost_usd |-> 5, warn_cost_usd |-> 10, min_evaluation_score |-> 6,
    warn_evaluation_score |-> 5, max_latency_ms |-> 10, warn_latency_ms |-> 30]}
PolicyFlags ==
  [require_valid_output : BOOLEAN, enabled : BOOLEAN, cost_policy_enabled : BOOLEAN,
   score_policy_enabled : BOOLEAN, latency_policy_enabled : BOOLEAN,
   validation_policy_enabled : BOOLEAN]
PolicyCalls ==
  {[fn |-> "evaluate_policy", metadata |-> md, config |-> PolicyConfig(t, f)] :
     md \in PolicyMetadatas, t \in ThresholdValues, f \in PolicyFlags}

CallEvaluatePolicy ==
  /\ call.fn = "evaluate_policy" /\ Pending(ret)
  /\ ret' = Returns(evaluate_policy(call.metadata, call.config))
  /\ UNCHANGED <<call, again>>
  /\ othersUnchanged

EvaluatePolicyAgain ==
  /\ call.fn = "evaluate_policy" /\ ~Pending(ret) /\ Pending(again)
  /\ again' = Returns(evaluate_policy(call.metadata, call.config))
  /\ UNCHANGED <<call, ret>>
  /\ othersUnchanged

PolicyInit ==
  /\ ControlPlaneIdle /\ StoreIdle
  /\ call \in PolicyCalls
  /\ ret = NoRet
  /\ again = NoRet
PolicyNext == CallEvaluatePolicy \/ EvaluatePolicyAgain
PolicySpec == PolicyInit /\ [][PolicyNext]_vars

(* ----------- the graduation evaluator on its own: GraduationSpec -------- *)
\* Cost drift is in percent, score drift in hundredths.
MaxAudits == 2

Abs(x) == IF x < 0 THEN -x ELSE x
GraduationThresholds(max_drift_pct, max_score_delta, max_critical_audits) ==
  [max_drift_pct |-> max_drift_pct, max_score_delta |-> max_score_delta,
   max_critical_audits |-> max_critical_audits]
DEFAULT_THRESHOLDS == GraduationThresholds(10, 5, 0)
DriftReport(tier, cost_error_pct, score_error) ==
  [tier |-> tier, cost_error_pct |-> cost_error_pct, score_error |-> score_error]
AuditRecord(action, trigger_reason) == [action |-> action, trigger_reason |-> trigger_reason]
GraduationResult(rule, tier, recommendation, reasons) ==
  [rule |-> rule, tier |-> tier, recommendation |-> recommendation, reasons |-> reasons]

\* the loop over audit_records; None and the empty list count nothing
RECURSIVE CriticalCount(_, _)
CriticalCount(audit_records, i) ==
  IF i > Len(audit_records) THEN 0
  ELSE (IF audit_records[i].action = "rollback" \/ audit_records[i].trigger_reason = "critical"
        THEN 1 ELSE 0)
       + CriticalCount(audit_records, i + 1)

RecommendHoldFromOne(reasons) ==
  IF Len(reasons) = 0 THEN "GRADUATE" ELSE "HOLD"

\* "Decide recommendation"
Recommend(reasons) ==
  IF Len(reasons) = 0 THEN "GRADUATE"
  ELSE IF Len(reasons) >= 2 THEN "ROLLBACK"
  ELSE "HOLD"

\* GraduationEvaluator.evaluate, with the arguments as the call leaves them
GraduationEvaluator_evaluate(thresholds, drift_report, audit_records) ==
  LET critical_count == IF audit_records.given THEN CriticalCount(audit_records.list, 1) ELSE 0
      reasons ==
        (IF Abs(drift_report.cost_error_pct) > thresholds.max_drift_pct
         THEN <<"drift_exceeded">> ELSE <<>>)
        \o (IF Abs(drift_report.score_error) > thresholds.max_score_delta
            THEN <<"score_delta_exceeded">> ELSE <<>>)
        \o (IF critical_count > thresholds.max_critical_audits
            THEN <<"critical_audits">> ELSE <<>>)
  IN [value |-> GraduationResult("cost_guard", drift_report.tier, Recommend(reasons), reasons),
      drift_report |-> drift_report, audit_records |-> audit_records]

CostDrifts == {-11, -10, 0, 10, 11}
ScoreDrifts == {-6, -5, 0, 5, 6}
AuditRecords ==
  {AuditRecord(a, t) : a \in {"rollback", "enforce"}, t \in {"critical", "manual"}}
NoAudits == [given |-> FALSE, list |-> <<>>]
AuditLists ==
  {NoAudits} \cup {[given |-> TRUE, list |-> l] :
                     l \in UNION {[1..n -> AuditRecords] : n \in 0..MaxAudits}}
ThresholdSets == {DEFAULT_THRESHOLDS, GraduationThresholds(10, 5, 1)}
GraduationCalls ==
  {[fn |-> "GraduationEvaluator.evaluate", thresholds |-> th,
    drift_report |-> DriftReport("free", c, s), audit_records |-> a] :
     th \in ThresholdSets, c \in CostDrifts, s \in ScoreDrifts, a \in AuditLists}

\* the call; `call` afterwards holds the arguments as the callee left them
CallGraduationEvaluator ==
  /\ call.fn = "GraduationEvaluator.evaluate" /\ Pending(ret)
  /\ LET r == GraduationEvaluator_evaluate(call.thresholds, call.drift_report, call.audit_records)
     IN /\ ret' = Returns([result |-> r.value, drift_report_before |-> call.drift_report,
                           audit_records_before |-> call.audit_records])
        /\ call' = [call EXCEPT !.drift_report = r.drift_report,
                                !.audit_records = r.audit_records]
  /\ UNCHANGED again
  /\ othersUnchanged

GraduationEvaluatorAgain ==
  /\ call.fn = "GraduationEvaluator.evaluate" /\ ~Pending(ret) /\ Pending(again)
  /\ LET r == GraduationEvaluator_evaluate(call.thresholds, call.drift_report, call.audit_records)
     IN again' = Returns([result |-> r.value, drift_report_before |-> call.drift_report,
                          audit_records_before |-> call.audit_records])
  /\ UNCHANGED <<call, ret>>
  /\ othersUnchanged

GraduationInit ==
  /\ ControlPlaneIdle /\ StoreIdle
  /\ call \in GraduationCalls
  /\ ret = NoRet
  /\ again = NoRet
GraduationNext == CallGraduationEvaluator \/ GraduationEvaluatorAgain
GraduationSpec == GraduationInit /\ [][GraduationNext]_vars

(* ------------- both evaluators on malformed input: EvaluatorSpec -------- *)
\* A drift report whose fields may be None, and audit lists that may hold
\* an entry that is not a dict.
NOT_A_DICT == AuditRecord("not_a_dict", "not_a_dict")
IsDict(audit) == audit # NOT_A_DICT

\* abs(x) > threshold raises TypeError unless x is a number; audit.get
\* raises AttributeError unless audit is a dict.  evaluate has no try block.
GraduationEvaluator_evaluate_raises(drift_report, audit_records) ==
  \/ CompareRaises(drift_report.cost_error_pct)
  \/ CompareRaises(drift_report.score_error)
  \/ /\ audit_records.given
     /\ \E i \in DOMAIN audit_records.list : ~IsDict(audit_records.list[i])

LooseDriftReports ==
  {DriftReport("free", c, s) : c \in {Num(0), Num(11), MetaNone}, s \in {Num(0), Num(6), MetaNone}}
LooseAuditLists ==
  {NoAudits} \cup {[given |-> TRUE, list |-> l] :
                     l \in UNION {[1..n -> AuditRecords \cup {NOT_A_DICT}] : n \in 0..MaxAudits}}
LooseGraduationCalls ==
  {[fn |-> "GraduationEvaluator.evaluate", thresholds |-> DEFAULT_THRESHOLDS,
    drift_report |-> d, audit_records |-> a] : d \in LooseDriftReports, a \in LooseAuditLists}
DefaultPolicyCalls ==
  {[fn |-> "evaluate_policy", metadata |-> md, config |-> DEFAULT_CONFIG] : md \in PolicyMetadatas}

\* GraduationEvaluator.evaluate on a drift report and audit list of any shape
CallGraduationEvaluatorLoose ==
  /\ call.fn = "GraduationEvaluator.evaluate" /\ Pending(ret)
  /\ IF GraduationEvaluator_evaluate_raises(call.drift_report, call.audit_records)
     THEN ret' = Raises
     ELSE ret' = Returns(
            GraduationEvaluator_evaluate(
              call.thresholds,
              DriftReport(call.drift_report.tier, call.drift_report.cost_error_pct.val,
                          call.drift_report.score_error.val),
              call.audit_records).value)
  /\ UNCHANGED <<call, again>>
  /\ othersUnchanged

EvaluatorInit ==
  /\ ControlPlaneIdle /\ StoreIdle
  /\ call \in DefaultPolicyCalls \cup LooseGraduationCalls
  /\ ret = NoRet
  /\ again = NoRet
EvaluatorNext == CallEvaluatePolicy \/ EvaluatePolicyAgain \/ CallGraduationEvaluatorLoose
EvaluatorSpec == EvaluatorInit /\ [][EvaluatorNext]_vars

(* --------------- the session store: StoreSpec and MemorySpec ------------ *)
\* SessionStore with its callers as threads.  A statement executed under
\* `with self._lock` is one step; what a method does after get_context has
\* returned is not under the lock and is a step of its own per statement.
\* Time is in minutes.
MaxTurns == 2
MaxAdds == 3
MaxContexts == 2
MaxTicks == 1
SESSION_TIMEOUT_MINUTES == 30

ExpiredAtTimeout ==
  {s \in Sessions : last_access[s] # NeverAccessed
                    /\ last_access[s] <= clock - SESSION_TIMEOUT_MINUTES}

\* _cleanup_expired: the sessions whose last access is before the cutoff
Expired == {s \in Sessions : last_access[s] # NeverAccessed
                             /\ last_access[s] < clock - SESSION_TIMEOUT_MINUTES}

\* what a cleanup removes: the context and how long it had been idle
Evictions == {[ctx |-> store_sessions[x], idle |-> clock - last_access[x]] : x \in Expired}
EvictedContexts == {e.ctx : e \in evicted}

\* get_context(session_id), the whole `with self._lock` block: the store
\* after it, and the context it returns
get_context(s) ==
  LET kept == [x \in Sessions |-> IF x \in Expired THEN NoContext ELSE store_sessions[x]]
      fresh == Len(ctx_turns) + 1
      created == kept[s] = NoContext
  IN [sessions |-> IF created THEN [kept EXCEPT ![s] = fresh] ELSE kept,
      last_access |-> [x \in Sessions |->
                          IF x = s THEN clock
                          ELSE IF x \in Expired THEN NeverAccessed ELSE last_access[x]],
      turns |-> IF created THEN Append(ctx_turns, <<>>) ELSE ctx_turns,
      log |-> IF created THEN Append(ctx_log, <<>>) ELSE ctx_log,
      context |-> IF created THEN fresh ELSE kept[s],
      evicted |-> evicted \cup Evictions]

CanGetContext(s) ==
  (store_sessions[s] = NoContext \/ s \in Expired) => Len(ctx_turns) < MaxContexts

GetContextStep(t, s, next) ==
  LET g == get_context(s) IN
  /\ thr[t].pc = "idle"
  /\ CanGetContext(s)
  /\ store_sessions' = g.sessions
  /\ last_access' = g.last_access
  /\ ctx_turns' = g.turns
  /\ ctx_log' = g.log
  /\ evicted' = g.evicted
  /\ cleaned_at' = clock
  /\ thr' = [thr EXCEPT ![t] = [pc |-> next, ctx |-> g.context, sliced |-> <<>>]]

storeFrame == UNCHANGED <<orchVars, captureVars, planVars, pureVars>>

\* SessionStore.add_turn: context = self.get_context(session_id)
AddTurnGetContext(t, s) ==
  /\ turns_added + Cardinality({u \in Threads : thr[u].pc = "append"}) < MaxAdds
  /\ GetContextStep(t, s, "append")
  /\ UNCHANGED <<clock, observed, ticks, turns_added>>
  /\ storeFrame

\* SessionContext.add_turn: self.turns.append(Turn(...))
AppendTurn(t) ==
  /\ thr[t].pc = "append"
  /\ turns_added' = turns_added + 1
  /\ ctx_turns' = [ctx_turns EXCEPT ![thr[t].ctx] = Append(@, turns_added + 1)]
  /\ ctx_log' = [ctx_log EXCEPT ![thr[t].ctx] = Append(@, turns_added + 1)]
  /\ thr' = [thr EXCEPT ![t].pc = "trim"]
  /\ UNCHANGED <<store_sessions, last_access, clock, observed, evicted, cleaned_at, ticks>>
  /\ storeFrame

KeepOldest(turns, n) == SubSeq(turns, 1, n)

\* self.turns[-self.max_turns:]
KeepLatest(turns, n) == SubSeq(turns, Len(turns) - n + 1, Len(turns))

\* if len(self.turns) > self.max_turns: evaluate self.turns[-self.max_turns:]
TrimRead(t) ==
  /\ thr[t].pc = "trim"
  /\ IF Len(ctx_turns[thr[t].ctx]) > MaxTurns
     THEN thr' = [thr EXCEPT ![t].pc = "assign",
                             ![t].sliced = KeepLatest(ctx_turns[thr[t].ctx], MaxTurns)]
     ELSE thr' = [thr EXCEPT ![t] = IdleThread]
  /\ UNCHANGED <<store_sessions, last_access, ctx_turns, clock, ctx_log, observed, evicted,
                 cleaned_at, ticks, turns_added>>
  /\ storeFrame

\* self.turns = <the slice>
TrimAssign(t) ==
  /\ thr[t].pc = "assign"
  /\ ctx_turns' = [ctx_turns EXCEPT ![thr[t].ctx] = thr[t].sliced]
  /\ thr' = [thr EXCEPT ![t] = IdleThread]
  /\ UNCHANGED <<store_sessions, last_access, clock, ctx_log, observed, evicted,
                 cleaned_at, ticks, turns_added>>
  /\ storeFrame

\* SessionStore.get_prompt_context: context = self.get_context(session_id)
PromptContextGetContext(t, s) ==
  /\ GetContextStep(t, s, "read")
  /\ UNCHANGED <<clock, observed, ticks, turns_added>>
  /\ storeFrame

\* context.to_prompt_context(): the turns it formats
ToPromptContext(t) ==
  /\ thr[t].pc = "read"
  /\ observed' = <<[ctx |-> thr[t].ctx, turns |-> ctx_turns[thr[t].ctx],
                     stale |-> thr[t].ctx \in EvictedContexts]>>
  /\ thr' = [thr EXCEPT ![t] = IdleThread]
  /\ UNCHANGED <<store_sessions, last_access, ctx_turns, clock, ctx_log, evicted,
                 cleaned_at, ticks, turns_added>>
  /\ storeFrame

\* SessionStore.clear_session
ClearSession(t, s) ==
  /\ thr[t].pc = "idle"
  /\ store_sessions[s] # NoContext
  /\ store_sessions' = [store_sessions EXCEPT ![s] = NoContext]
  /\ last_access' = [last_access EXCEPT ![s] = NeverAccessed]
  /\ UNCHANGED <<ctx_turns, clock, thr, ctx_log, observed, evicted, cleaned_at, ticks,
                 turns_added>>
  /\ storeFrame

\* SessionStore.session_count
SessionCount(t) ==
  /\ thr[t].pc = "idle"
  /\ Expired # {}
  /\ store_sessions' = [x \in Sessions |-> IF x \in Expired THEN NoContext ELSE store_sessions[x]]
  /\ last_access' = [x \in Sessions |-> IF x \in Expired THEN NeverAccessed ELSE last_access[x]]
  /\ evicted' = evicted \cup Evictions
  /\ cleaned_at' = clock
  /\ UNCHANGED <<ctx_turns, clock, thr, ctx_log, observed, ticks, turns_added>>
  /\ storeFrame

\* datetime.now() moves on by the timeout or by a minute more
Tick(d) ==
  /\ ticks < MaxTicks
  /\ ticks' = ticks + 1
  /\ clock' = clock + d
  /\ UNCHANGED <<store_sessions, last_access, ctx_turns, thr, ctx_log, observed, evicted,
                 cleaned_at, turns_added>>
  /\ storeFrame

StoreNext ==
  \/ \E t \in Threads, s \in Sessions :
       AddTurnGetContext(t, s) \/ PromptContextGetContext(t, s) \/ ClearSession(t, s)
  \/ \E t \in Threads :
       AppendTurn(t) \/ TrimRead(t) \/ TrimAssign(t) \/ ToPromptContext(t) \/ SessionCount(t)
  \/ \E d \in {SESSION_TIMEOUT_MINUTES, SESSION_TIMEOUT_MINUTES + 1} : Tick(d)

StoreStart(callers) ==
  /\ ControlPlaneIdle /\ PureIdle
  /\ store_sessions = [s \in Sessions |-> NoContext]
  /\ last_access = [s \in Sessions |-> NeverAccessed]
  /\ ctx_turns = <<>> /\ ctx_log = <<>> /\ observed = <<>> /\ evicted = {}
  /\ clock = 0 /\ cleaned_at = 0 /\ ticks = 0 /\ turns_added = 0
  /\ thr = [t \in Threads |-> IF t \in callers THEN IdleThread ELSE OffThread]

\* concurrent callers
StoreInit == StoreStart(Threads)
StoreSpec == StoreInit /\ [][StoreNext]_vars
\* one caller at a time
MemoryInit == StoreStart({"t1"})
MemorySpec == MemoryInit /\ [][StoreNext]_vars

(* ============================ properties =============================== *)
Finished == pc \in {"returned", "raised"}

\* C1: an exception raised by a side computation of orchestrate (memory
\* read, memory write, analyzer, validator, evaluator) never puts the request
\* on its failure path: orchestrate does not raise because of it.
C1_SideComputationNeverAborts ==
  pc \in {"capture_failure", "raise", "raised"} => raisedBy \notin SideComputations

\* C2: once the deadline has expired, the coordinating flow goes on with the
\* degraded result without waiting for the worker: it can take its next
\* step while the capability call is still running.
C2_TimeoutDoesNotWaitForWorker ==
  (timedOut /\ pc = "pool_exit") => ENABLED CoordinatorStep

\* C3: when the capability call times out or raises, orchestrate returns
\* normally, with confidence 0 and the error marker of the outcome, and the
\* capability was invoked at most once.
C3_DegradedResultIsReturned ==
  (Finished /\ (timedOut \/ worker = "raised")) =>
     /\ pc = "returned"
     /\ result.confidence = 0
     /\ result.error = (IF timedOut THEN "timeout" ELSE "exception")
     /\ invocations <= 1

\* C4: the capability that is invoked, and the one the returned decision
\* names, is the one the Planner's keyword classification selects for the
\* prompt, for every request of a session.
C4_RoutingIsKeywordClassification ==
  pc \notin {"idle"} =>
     /\ invoked = PlannerAgent_plan(prompt).selected_agent
     /\ decision.selected_agent = PlannerAgent_plan(prompt).selected_agent

\* C5: TraceCollector.capture never raises, whatever set of its stages
\* fails: no exception leaves it and control stays on the success path.
C5_CaptureNeverRaises ==
  /\ captureRaised = FALSE
  /\ pc \in {"capture", "publish", "return"}
  /\ raisedBy = "none"

\* C5 witness: cost estimation and the sink both raised and capture returned.
C5_Witness_StagesFailed ==
  pc = "return" /\ failed = {"cost", "emit"}

\* C6: when the sink's emit raises during capture, saving to the evaluation
\* store is still attempted.
C6_SaveAttemptedAfterEmitFailure ==
  "emit" \in failed => "save" \in attempted

\* C7: telemetry is fire-and-forget: while a publish call is in flight,
\* orchestrate can return.
C7_ReturnDoesNotWaitForPublish ==
  (pc = "publish" /\ inFlight) => ENABLED Return

PlanDone == planPc = "done"
SomeStepFailed == \E i \in 1..Len(results) : results[i].status = "failed"
Completed == {i \in 1..Len(results) : results[i].status = "completed"}

\* C8: the status of the ExecutionResult is FAILED exactly when one of its
\* step results is FAILED, and COMPLETED otherwise.
C8_StatusDerivedFromSteps ==
  PlanDone => global_status = (IF SomeStepFailed THEN "failed" ELSE "completed")

\* C9: steps run in the plan's declared order, depends_on unused, and the
\* run stops at the first failed step: step_results are the results of a
\* prefix of plan.steps in order, every result before the last is COMPLETED,
\* and nothing is executed after a FAILED step.
C9_DeclaredOrderStopAtFirstFailure ==
  /\ Len(results) <= Len(plan) /\ Len(executed) <= Len(plan)
  /\ \A i \in 1..Len(results) :
       /\ results[i].step_id = plan[i].step_id
       /\ results[i].agent_role = plan[i].agent_role
  /\ \A i \in 1..(Len(results) - 1) : results[i].status = "completed"
  /\ executed = [i \in 1..Len(executed) |-> plan[i].step_id]
  /\ Len(executed) \in {Len(results), Len(results) + 1}
  /\ \A i \in 1..Len(results) : results[i].status = "failed" => Len(executed) = i

\* C9 witness: a three-step plan whose first step declares a dependency on
\* the second, whose second step has no registered handler; two results.
C9_Witness_AbortedAtUnknownRole ==
  /\ PlanDone /\ Len(plan) = 3 /\ Len(results) = 2
  /\ plan[1].depends_on = {2}
  /\ results[1].status = "completed"
  /\ results[2].status = "failed" /\ results[2].error = "no_agent_found"

\* C10 as stated: whenever a step completed, the final output is the output
\* of the last completed step, whether or not a later step failed.
C10_FinalOutputIsLastCompletedOutput ==
  (PlanDone /\ Completed # {}) =>
     final_output = results[CHOOSE i \in Completed : \A j \in Completed : j <= i].output

\* C10 as the code has it: an execution that ends COMPLETED carries str() of
\* its last step's output ("No steps executed." for an empty plan); one
\* that ends FAILED carries no step output: None after a failed step, the
\* crash text after a crash.
C10_FinalOutputOfCompletedPlan ==
  PlanDone =>
     IF crashed THEN final_output = EXECUTION_CRASHED
     ELSE IF global_status = "failed" THEN final_output = PyNone
     ELSE IF results = <<>> THEN final_output = NO_STEPS_EXECUTED
     ELSE final_output = Str(results[Len(results)].output)

\* C10 witness: a completed two-step plan whose last answer is not a string.
C10_Witness_CompletedWithDict ==
  /\ PlanDone /\ global_status = "completed" /\ Len(results) = 2
  /\ results[2].output.type = "dict" /\ final_output # results[2].output

\* C11: an exception that escapes step execution inside execute_plan's loop
\* is re-raised: no ExecutionResult is returned for a crashed execution.
C11_CrashedExecutionReturnsNoResult ==
  PlanDone => ~crashed

Returned == ~Pending(ret)

\* C12: OrchestrationPlanner.plan never raises, for every prompt (null
\* included) with or without a prior policy snapshot, and when the wrapped
\* Planner fails the decision it returns selects 'general'.
C12_OrchestrationPlannerNeverRaises ==
  (call.fn = "OrchestrationPlanner.plan" /\ Returned) =>
     /\ ~ret.raised
     /\ call.plannerRaises => ret.value.selected_agent = DEFAULT_AGENT

\* a dict with at least one entry
NonEmptySnapshot(ctx) == Truthy(ctx)

\* C13: for a fixed prompt, whatever non-empty policy snapshot plan is given,
\* it returns the capability and the reason of the Planner's decision for
\* that prompt (so any two snapshots give the same routing).
C13_SnapshotNeverChangesRouting ==
  (/\ call.fn = "OrchestrationPlanner.plan" /\ Returned
   /\ ~call.plannerRaises /\ NonEmptySnapshot(call.policy_context)) =>
     /\ ~ret.raised
     /\ ret.value.selected_agent = PlannerAgent_plan(call.prompt).selected_agent
     /\ ret.value.reason = PlannerAgent_plan(call.prompt).reason

HasKeyword(q, kws) == \E i \in 1..Len(q.words) : q.words[i] \in kws
OnlyWhitespace(q) == \A i \in 1..Len(q.words) : q.words[i] = " "

\* C14: PlannerAgent.plan never raises and is a function of the prompt: a
\* null, non-text, empty or whitespace-only prompt, or an internal fault,
\* gives ('general', 'Default routing for general queries'); otherwise a
\* retrieval keyword gives 'retrieval' even next to a validation keyword,
\* else a validation keyword gives 'critic', else 'general'; a second call
\* returns the same decision.
C14_PlannerAgentTotalDeterministic ==
  (call.fn = "PlannerAgent.plan" /\ Returned) =>
     LET q == call.prompt IN
     /\ ~ret.raised
     /\ IF ~q.isText \/ OnlyWhitespace(q) \/ call.fault
        THEN /\ ret.value.selected_agent = "general"
             /\ ret.value.reason = "Default routing for general queries"
        ELSE ret.value.selected_agent =
               (IF HasKeyword(q, {"search", "find", "lookup", "retrieve", "document"})
                THEN "retrieval"
                ELSE IF HasKeyword(q, {"validate", "verify", "check", "review", "critique"})
                THEN "critic" ELSE "general")
     /\ ~Pending(again) => again = ret

\* C14 witness: a prompt with a validation keyword before a retrieval keyword
\* was planned twice and went to retrieval.
C14_Witness_RetrievalBeforeValidation ==
  /\ call.fn = "PlannerAgent.plan" /\ ~Pending(again)
  /\ call.prompt = TextPrompt(<<"verify", "search">>) /\ ~call.fault
  /\ ret.value.selected_agent = "retrieval"

CriticCall == call.fn \in {"CriticAgent.run_step", "CriticAgent.validate_from_execution"}

\* C15: every CriticResult, from run_step and from validate_from_execution,
\* has is_safe true exactly when its recommendation is PROCEED.
C15_SafeExactlyWhenProceed ==
  (CriticCall /\ Returned) =>
    /\ ~ret.raised
    /\ ret.value.is_safe <=> (ret.value.recommendation = "proceed")

C15_Witness_Proceed ==
  /\ call.fn = "CriticAgent.validate_from_execution" /\ Returned
  /\ call.execution_result.status = "completed"
  /\ ret.value.recommendation = "proceed"
  /\ ret.value.is_safe

\* the chunks and the output the Critic ends up evaluating for a call
ChunksGiven(c) ==
  IF c.fn = "CriticAgent.run_step"
  THEN LET d == extract_input_data(c.input, c.previous_results)
       IN IF d.retrieved_chunks.type = "absent" THEN <<>> ELSE d.retrieved_chunks.chunks
  ELSE CollectFrom(InputData(CList(<<>>), CNone, {}), c.execution_result.step_results, 1).retrieved_chunks.chunks
OutputGiven(c) ==
  IF c.fn = "CriticAgent.run_step"
  THEN extract_input_data(c.input, c.previous_results).proposed_output
  ELSE LET d == CollectFrom(InputData(CList(<<>>), CNone, {}), c.execution_result.step_results, 1)
       IN IF d.proposed_output.type = "NoneType" THEN c.execution_result.final_output
          ELSE d.proposed_output

\* C16: with no grounding chunks, or with no output to evaluate, the Critic
\* returns risk HIGH, recommendation BLOCK and is_safe false, whatever the
\* metadata and the other inputs are.
C16_NoGroundingOrNoOutputBlocks ==
  (/\ CriticCall /\ Returned
   /\ \/ Len(ChunksGiven(call)) = 0
      \/ OutputGiven(call).type \in {"NoneType", "absent"}) =>
    /\ ~ret.raised
    /\ ret.value.risk_level = "high"
    /\ ret.value.recommendation = "block"
    /\ ~ret.value.is_safe

C16_Witness_FullMetadataNoChunks ==
  /\ call.fn = "CriticAgent.run_step" /\ Returned
  /\ call.previous_results = <<PreviousResult("generator", CText(ANSWER), {"source", "timestamp"})>>
  /\ call.input.type = "NoneType"
  /\ ret.value.risk_level = "high"
  /\ ret.value.recommendation = "block"

\* C17: for every execution result whose status is FAILED,
\* validate_from_execution returns is_safe false and recommendation BLOCK,
\* whatever the completed steps left behind.
C17_FailedExecutionBlocks ==
  (/\ call.fn = "CriticAgent.validate_from_execution" /\ Returned
   /\ call.execution_result.status = "failed") =>
    /\ ~ret.value.is_safe
    /\ ret.value.recommendation = "block"

\* the condition under which the cost guard is to be enforced
CostGuardDue(c) ==
  /\ c.config.enforcement_enabled
  /\ "cost_guard" \in c.config.enabled_rules
  /\ \/ ~c.config.canary.enabled
     \/ /\ c.config.canary.tier = "free"
        /\ PromptHashMod100(c.prompt) < c.config.canary.percentage

\* C18: for a snapshot with status warn and an elevated-cost warning, an
\* enforcement record is produced exactly when the kill switch is on, the
\* rule is allow-listed and canary mode is off or (the tier is the canary
\* tier and hash(prompt) mod 100 < percentage); otherwise none is produced
\* and enforcement_skipped is set; a second evaluation gives the same outcome.
C18_CostGuardEnforcedExactlyWhenDue ==
  (/\ call.fn = "OrchestrationPlanner.plan" /\ Returned /\ ~call.plannerRaises
   /\ call.policy_context.status = "warn"
   /\ "elevated_cost" \in call.policy_context.warnings) =>
     /\ ~ret.raised
     /\ ret.value.enforcement = CostGuardDue(call)
     /\ ret.value.enforcement_skipped = ~CostGuardDue(call)
     /\ ~Pending(again) => again = ret

InSeq(x, s) == \E i \in DOMAIN s : s[i] = x
CountIn(xs, s) == Cardinality({i \in DOMAIN s : s[i] \in xs})
PolicyReturned == call.fn = "evaluate_policy" /\ Returned

\* the value of a metadata entry as a number, when it is one
ValueOf(v) == IF v.type = "absent" THEN 0 ELSE v.val
IsNumber(v) == v.type \in {"num", "absent"}
ScoreGiven(md) == md.evaluation_is_dict /\ md.score.type = "num"

\* status follows the recorded violations and warnings
StatusFollowsRecords(r) ==
  /\ r.status = "fail" <=> r.violations # <<>>
  /\ r.status = "warn" <=> (r.violations = <<>> /\ r.warnings # <<>>)
  /\ r.status = "pass" <=> (r.violations = <<>> /\ r.warnings = <<>>)

\* the pair of a check: the violation beyond the limit, otherwise the
\* warning beyond the warning threshold, never both
PairRecorded(r, beyondLimit, beyondWarn, violation, warning) ==
  /\ InSeq(violation, r.violations) <=> beyondLimit
  /\ InSeq(warning, r.warnings) <=> (~beyondLimit /\ beyondWarn)
  /\ CountIn({violation}, r.violations) + CountIn({warning}, r.warnings) <= 1
NoneRecorded(r, violation, warning) ==
  ~InSeq(violation, r.violations) /\ ~InSeq(warning, r.warnings)

\* a comparison of a value that is not a number, in a check that is enabled
Faults(md, cfg) ==
  \/ cfg.cost_policy_enabled /\ ~IsNumber(md.estimated_cost_usd)
  \/ cfg.score_policy_enabled /\ md.evaluation_is_dict /\ md.score.type = "str"
  \/ cfg.latency_policy_enabled /\ ~IsNumber(md.latency_ms)

GraduationReturned == call.fn = "GraduationEvaluator.evaluate" /\ Returned
\* the number of audit records that are rollback actions or critical triggers
CriticalAudits(a) ==
  IF a.given
  THEN Cardinality({i \in DOMAIN a.list :
                      a.list[i].action = "rollback" \/ a.list[i].trigger_reason = "critical"})
  ELSE 0
\* the number of reasons the inputs trigger
TriggeredReasons(c) ==
  (IF Abs(c.drift_report.cost_error_pct) > c.thresholds.max_drift_pct THEN 1 ELSE 0)
  + (IF Abs(c.drift_report.score_error) > c.thresholds.max_score_delta THEN 1 ELSE 0)
  + (IF CriticalAudits(c.audit_records) > c.thresholds.max_critical_audits THEN 1 ELSE 0)

\* C20: GraduationEvaluator.evaluate returns GRADUATE when no reason is
\* triggered, HOLD when exactly one is and ROLLBACK when two or more are,
\* the reasons being |cost drift %| > threshold, |score drift| > threshold
\* and (audit records that are rollback actions or critical triggers) >
\* threshold; the call leaves its inputs as they were.
C20_RecommendationFromReasonCount ==
  GraduationReturned =>
    /\ ~ret.raised
    /\ Len(ret.value.result.reasons) = TriggeredReasons(call)
    /\ ret.value.result.recommendation =
         (CASE TriggeredReasons(call) = 0 -> "GRADUATE"
            [] TriggeredReasons(call) = 1 -> "HOLD"
            [] OTHER -> "ROLLBACK")
    /\ call.drift_report = ret.value.drift_report_before
    /\ call.audit_records = ret.value.audit_records_before

C20_Witness_Rollback ==
  /\ GraduationReturned
  /\ call.thresholds = DEFAULT_THRESHOLDS
  /\ call.drift_report.cost_error_pct = -11
  /\ call.drift_report.score_error = 0
  /\ call.audit_records.given
  /\ call.audit_records.list = <<AuditRecord("enforce", "critical")>>
  /\ ret.value.result.recommendation = "ROLLBACK"

\* C21: neither the policy evaluator nor the graduation evaluator ever
\* raises: a malformed metadata value, drift report or audit record yields a
\* result (for the policy evaluator, one whose status is "error").
C21_EvaluatorsNeverRaise ==
  (call.fn \in {"evaluate_policy", "GraduationEvaluator.evaluate"} /\ Returned) =>
    /\ ~ret.raised
    /\ (call.fn = "evaluate_policy" /\ Faults(call.metadata, call.config)) =>
         ret.value.status = "error"

Latest(turns, n) == IF Len(turns) > n THEN KeepLatest(turns, n) ELSE turns
InStore(c) == \E s \in Sessions : store_sessions[s] = c
\* no add_turn is under way on context c
Quiescent(c) == \A t \in Threads : thr[t].pc \in {"append", "trim", "assign"} => thr[t].ctx # c

\* C22: for any interleaving of concurrent add_turn, get_prompt_context,
\* clear_session and lazy eviction on one store, no reader observes more
\* than the cap, and no added turn is lost other than by the cap or by the
\* removal of the whole session.
C22_NoLostTurnNoOversizedRead ==
  /\ \A i \in DOMAIN observed : Len(observed[i].turns) <= MaxTurns
  /\ \A c \in DOMAIN ctx_turns :
       (InStore(c) /\ Quiescent(c)) => ctx_turns[c] = Latest(ctx_log[c], MaxTurns)

\* C23: after any sequence of add_turn calls on a session, the session
\* holds at most max_turns turns, and they are the most recently added
\* turns in insertion order.
C23_HoldsMostRecentTurns ==
  thr["t1"].pc = "idle" =>
    \A c \in DOMAIN ctx_turns :
      /\ Len(ctx_turns[c]) <= MaxTurns
      /\ Len(ctx_turns[c]) = Min(Len(ctx_log[c]), MaxTurns)
      /\ \A i \in DOMAIN ctx_turns[c] :
           ctx_turns[c][i] = ctx_log[c][Len(ctx_log[c]) - Len(ctx_turns[c]) + i]

C23_Witness_OldestDropped ==
  /\ thr["t1"].pc = "idle"
  /\ \E c \in DOMAIN ctx_turns : Len(ctx_log[c]) = MaxTurns + 1 /\ Len(ctx_turns[c]) = MaxTurns

\* C28: a session idle for longer than the timeout is evicted on the next
\* store access that cleans up: its old turns are not returned afterwards and
\* the next get for that id yields a fresh empty context; a session accessed
\* within the timeout is never evicted.
C28_IdleSessionsEvictedLazily ==
  /\ \A e \in evicted : e.idle > SESSION_TIMEOUT_MINUTES
  /\ \A s \in Sessions :
       store_sessions[s] # NoContext =>
         /\ cleaned_at - last_access[s] <= SESSION_TIMEOUT_MINUTES
         /\ store_sessions[s] \notin EvictedContexts
  /\ \A i \in DOMAIN observed : ~observed[i].stale
  /\ \A t \in Threads :
       (thr[t].pc \in {"read", "append"} /\ ctx_log[thr[t].ctx] = <<>>) =>
         ctx_turns[thr[t].ctx] = <<>>

C28_Witness_FreshContextAfterEviction ==
  /\ evicted # {}
  /\ \E s \in Sessions, e \in evicted :
       /\ store_sessions[s] # NoContext
       /\ store_sessions[s] > e.ctx
       /\ ctx_turns[e.ctx] # <<>>
       /\ observed = <<[ctx |-> store_sessions[s], turns |-> <<>>, stale |-> FALSE]>>


\* C24: publish_all never raises and is gated only by the enabled flag: once
\* it is over, nothing was sent when publishing is disabled, and when it is
\* enabled the five payloads of a trace annotated with policy and SLA were
\* sent once each in the order trace, cost, evaluation, policy, sla, whatever
\* became of each send.
C24_PublishAllNeverRaises ==
  /\ "publish" \notin failed
  /\ ("publish" \in attempted /\ pc = "return") =>
       sent = (IF llmops THEN ENDPOINTS ELSE <<>>)


\* C25: the risk level of every CriticResult follows the first matching rule:
\* an issue containing "no grounding", "no output" or "no extractable" gives
\* HIGH; else a grounding score below 0.2 gives HIGH; else more than two
\* issues or a grounding score below 0.5 gives MEDIUM; else a confidence of
\* at least 0.6 with at most one issue gives LOW; else MEDIUM.
C25_RiskByFirstMatchingRule ==
  (CriticCall /\ Returned /\ ~ret.raised) =>
    LET r == ret.value
        critical ==
          \E n \in DOMAIN r.issues :
            \/ IssueContains(r.issues[n], <<"no", "grounding">>)
            \/ IssueContains(r.issues[n], <<"no", "output">>)
            \/ IssueContains(r.issues[n], <<"no", "extractable">>)
        g == r.grounding_score
        c == r.confidence_score
    IN r.risk_level =
         (IF critical THEN "high"
          ELSE IF 10 * g.num < 2 * g.den THEN "high"
          ELSE IF Len(r.issues) > 2 \/ 10 * g.num < 5 * g.den THEN "medium"
          ELSE IF 10 * c.num >= 6 * c.den /\ Len(r.issues) <= 1 THEN "low"
          ELSE "medium")

\* an output sharing no keyword with its three chunks, metadata complete: the
\* only issue is the low grounding score and the second rule decides
C25_Witness_LowScoreIsHigh ==
  /\ CriticCall /\ Returned /\ ~ret.raised
  /\ ret.value.issues = <<LOW_GROUNDING>>
  /\ ret.value.grounding_score = Score(0, 1)
  /\ ret.value.risk_level = "high"


\* the hint the first matching entry of a snapshot stands for; "generic" when
\* none of the three known entries is present
FirstMatch(entries, cost, quality, latency) ==
  IF cost[1] \in entries THEN cost[2]
  ELSE IF quality[1] \in entries THEN quality[2]
  ELSE IF latency[1] \in entries THEN latency[2]
  ELSE "generic"
ExpectedFailHint(ctx) ==
  FirstMatch(ctx.violations, <<"high_cost", "cost_sensitive">>,
             <<"low_score", "quality_sensitive">>, <<"high_latency", "latency_sensitive">>)
ExpectedWarnHint(ctx) ==
  FirstMatch(ctx.warnings, <<"elevated_cost", "prefer_cost_efficient">>,
             <<"marginal_score", "prefer_quality">>, <<"elevated_latency", "prefer_fast">>)
HintIs(d, expected) ==
  IF expected = "generic"
  THEN d.policy_hint \notin {"none", "cost_sensitive", "quality_sensitive", "latency_sensitive",
                             "prefer_cost_efficient", "prefer_quality", "prefer_fast"}
  ELSE d.policy_hint = expected

\* C26: OrchestrationPlanner.plan, given a snapshot with status fail or warn,
\* returns a decision whose hint is the first match among cost, quality and
\* latency of the snapshot's violations (fail) or warnings (warn), a generic
\* hint when none of them matches; and the influenced flag of a decision is
\* true exactly when a hint is set.
C26_HintByFirstMatchGenericOtherwise ==
  (call.fn = "OrchestrationPlanner.plan" /\ Returned /\ ~call.plannerRaises) =>
    LET ctx == call.policy_context
        d == ret.value
    IN /\ ctx.status = "fail" => ~ret.raised /\ HintIs(d, ExpectedFailHint(ctx))
       /\ ctx.status = "warn" => ~ret.raised /\ HintIs(d, ExpectedWarnHint(ctx))
       /\ ~ret.raised => (d.policy_influenced <=> (d.policy_hint # "none"))


\* capture is over, it built a trace and its audit did not itself fail
TraceCaptured == pc \in {"publish", "return"} /\ trace.built /\ "audit" \notin failed
AuditWritten(action, applied) ==
  \E n \in DOMAIN audits : audits[n] = EnforcementAudit(action, applied)

\* C27: capture writes at most one audit entry per trace: an enforcement entry
\* (applied = true) exactly when the routing metadata carries an applied
\* enforcement record; otherwise a canary-skip entry (applied = false) exactly
\* when the decision's canary record says eligible and not sampled; otherwise
\* no entry.
C27_OneAuditEntryPerTrace ==
  TraceCaptured =>
    LET routing == result.routing
        skipped == ~routing.enforcement /\ routing.canary = "sampled_out"
    IN /\ Len(audits) <= 1
       /\ AuditWritten("enforce_routing", TRUE) <=> routing.enforcement
       /\ AuditWritten("canary_skip", FALSE) <=> skipped
       /\ (~routing.enforcement /\ ~skipped) => audits = <<>>


\* C29: policy hints are session-derived: once the trace of a request has
\* been captured, the snapshot the next request of the same session hands to
\* the Policy-Hint Layer (the session's entry of the policy cache) is the
\* policy result computed for the request just completed.
C29_NextRequestSeesLastPolicyResult ==
  (pc \in {"publish", "return", "returned"} /\ trace.built) =>
    SESSION_POLICY_CACHE[session_id] = trace.policy


Restrictiveness(recommendation) ==
  CASE recommendation = "proceed" -> 0
    [] recommendation = "warn" -> 1
    [] recommendation = "block" -> 2
ScoreAtMost(a, b) == a.num * b.den <= b.num * a.den

\* C30: fail-safe escalation is monotone in grounding: for the chunks and the
\* metadata of a run_step call, an output that scores no higher on grounding
\* than the output evaluated never gets a less restrictive recommendation than
\* the one returned (PROCEED < WARN < BLOCK); both outputs are present.
C30_LowerGroundingNeverLessRestrictive ==
  (call.fn = "CriticAgent.run_step" /\ Returned /\ ~ret.raised) =>
    LET d == extract_input_data(call.input, call.previous_results)
        chunks == ChunksGiven(call)
    IN \A other \in ProposedOutputs :
         (/\ CriticTruthy(d.proposed_output) /\ CriticTruthy(other)
          /\ ScoreAtMost(Evaluate(<<>>, chunks, other, d.metadata).grounding_score,
                         ret.value.grounding_score)) =>
           Restrictiveness(Evaluate(<<>>, chunks, other, d.metadata).recommendation)
             >= Restrictiveness(ret.value.recommendation)

====
